---------------------------- MODULE Spec2Model ----------------------------
(***************************************************************************)
(* Reporting engine of the Signal K Windy API v2 reporter (src/index.js,   *)
(* the v1.2.0 engine, lines 364-808): persistent scheduler, movement       *)
(* guard, peak gust sampler and the two-phase submission (metadata PUT,    *)
(* observation GET).                                                       *)
(*                                                                         *)
(* Units.  Time is in milliseconds and advances in steps of TickMs.        *)
(* A coordinate is an integer n of microdegrees and stands for the double  *)
(* nearest to n / 1000000 degrees.  kx and currentDistance (metres) are    *)
(* IEEE 754 doubles <<sign, exponent, significand>>, computed bit for bit  *)
(* as the program computes them.  Wind speeds are in cm/s, values formatted *)
(* by toFixed(1) are in tenths.  A sensor value v / den stands for the     *)
(* double nearest to it, and the conversions round as the double does.     *)
(***************************************************************************)
EXTENDS Integers, Sequences, FiniteSets, TLC

VARIABLES
    cfg,              \* options handed to plugin.start (forceUpdate, minMove, interval)
    now,              \* Date.now()
    running,          \* the server has called start and not yet stop
    subscriptions,    \* delta subscriptions registered by plugin.start so far
    timers,           \* pending setTimeout callbacks, oldest first
    timerLive,        \* the handle in `timer` refers to the last pending timeout
    statusTimer,      \* heartbeat setInterval: "none" or its message prefix
    lastSentPos,      \* baseline position {lat, lon}
    currentDistance,  \* distance from the baseline
    nextRunTime,      \* absolute time of the next report
    kx,               \* latitude scaling factor
    peakGust,         \* highest wind speed since the last successful report
    bus,              \* the data tree: current value of navigation.position
    file,             \* state.json: None when missing, Some(record) with the record as
                      \* JSON.stringify writes it, or Truncated
    cycles,           \* reportToWindy invocations awaiting a response
    status,           \* last setPluginStatus / setPluginError message
    lastReportString, \* '' until a report succeeds, then the text of the last one
    leaked,           \* prefixes of heartbeat intervals that run without a handle
    exited,           \* the host process has ended on an unhandled rejection
    logged            \* the messages the last step gave to app.debug / app.error

vars == <<cfg, now, running, subscriptions, timers, timerLive, statusTimer,
          lastSentPos, currentDistance, nextRunTime, kx,
          peakGust, bus, file, cycles, status, lastReportString, leaked, exited,
          logged>>

\* An optional value: None when absent or null, Some(v) otherwise
None == <<>>
Some(v) == <<v>>
Val(m) == m[1]

-----------------------------------------------------------------------------
(* Bounds of the model *)

MaxTicks == 21        \* the clock stops after this many steps of TickMs
MaxCycles == 2        \* reportToWindy invocations in flight at once
MaxStarts == 2        \* calls of plugin.start

-----------------------------------------------------------------------------
(* Program constants *)

WarmupMs == 15000          \* warm-up delay of plugin.start
TimeoutMs == 30000         \* axios timeout of both requests
MsPerMinute == 60000       \* scheduleNext
DefaultInterval == 5       \* options.interval || 5
DefaultMinMove == 300      \* options.minMove || 300
DefaultAglWind == 10       \* options.agl_wind || 10
DefaultAglTemp == 2        \* options.agl_temp || 2
MetresPerDegree == 111319  \* handlePositionUpdate
KelvinOffset == 27315      \* 273.15, in hundredths of a kelvin

TickMs == WarmupMs
StartTime == TickMs

-----------------------------------------------------------------------------
(* Input sets *)

PosA == [lat |-> 40000000, lon |-> 10000000]
PosB == [lat |-> 40005000, lon |-> 10000000]   \* 556.6 m north of PosA
UnsetPos == [lat |-> 0, lon |-> 0]

Positions == {PosA, PosB}
\* with a point 140 m from PosA and the (0,0) a receiver reports without a fix
GuardPositions == {PosA, PosB, [lat |-> 40001000, lon |-> 10001000], UnsetPos}
\* with a point 0.84 m from PosA whose sixth decimal is rounded away by
\* toFixed(5)
DataPositions == {PosA, PosB, [lat |-> 40000006, lon |-> 10000006]}
\* every position of the input sets
ModelPositions == GuardPositions \cup DataPositions
HeightVals == {0, 20, 105}            \* identity.agl_*, tenths of a metre; 0 is not set
WindVals == {520, 1230}      \* wind speed samples, cm/s
GustVals == {800}            \* native gust readings, cm/s
Intervals == {5}             \* logic.interval, minutes
MetaCodes == {401, 0}        \* HTTP status of a failed PUT; 0 is 'N/A' (network error, timeout)
\* credentials of the settings: station id, station password, account API key
StationIds == {"f0123456"}
StationPasswords == {"station-password"}
ApiKeys == {"account-api-key"}
ObsCodes == {401, 0}         \* HTTP status of a failed GET other than 429
RetryAfters == {600000}      \* retry_after of a 429 response, ms

\* settings handed to plugin.start: the defaults, Force GPS Updates, and a
\* threshold of 0
\* The values app.getSelfPath returns for the six sensor paths and for the
\* altitude node (cm)
NoSensors == [wind |-> None, gust |-> None, dir |-> None,
              temp |-> None, pressure |-> None, humidity |-> None,
              altitude |-> None]

\* A node of the data tree: None when the path has no node, NullNode when the
\* node's value is null, Some(v) when it holds v
NullNode == <<0, 0>>
HasValue(node) == Len(node) = 1

\* A node that is there without a numeric value (its value is undefined):
\* `x.value !== null` holds and x.value.toFixed is not a function
BadNode == <<0, 0, 0>>

\* what the data tree may hold for the sensor paths when a report is built
Optional(S) == {None} \cup {Some(x) : x \in S}
SensorReadings ==
    {[NoSensors EXCEPT !.wind = w, !.gust = g] :
        w \in Optional(WindVals), g \in Optional(GustVals)}

\* the same without wind samples: no sensor at all, or a native gust only
CalmReadings ==
    {[NoSensors EXCEPT !.gust = g] : g \in Optional(GustVals)}

\* the same, or a wind speed node without a numeric value
IntervalReadings == CalmReadings \cup {[NoSensors EXCEPT !.wind = BadNode]}

\* readings that vary one group of sensor nodes at a time: absent, null or
\* with a value; one node without a numeric value; and values that lie
\* halfway between two results (0.15 m/s, 243.20 K, a ratio of 0.285)
Nodes(S) == {None, NullNode} \cup {Some(x) : x \in S}
DataReadings ==
    {[NoSensors EXCEPT !.dir = d] : d \in Nodes({-100, 1571, 6280, 7000})} \cup
    {[NoSensors EXCEPT !.wind = w, !.gust = g] : w \in Nodes({520}), g \in Nodes(GustVals)} \cup
    {[NoSensors EXCEPT !.temp = t, !.pressure = Some(1013254), !.humidity = h,
                       !.altitude = a] :
        t \in Nodes({26815}), h \in Nodes({655}), a \in Nodes({346})} \cup
    {[NoSensors EXCEPT ![k] = BadNode] :
        k \in {"dir", "temp", "pressure", "humidity", "altitude"}} \cup
    {[NoSensors EXCEPT !.wind = Some(15), !.temp = Some(24320), !.humidity = Some(285)]}

Configs == {c \in [forceUpdate : BOOLEAN, minMove : {0, DefaultMinMove}, interval : Intervals,
                    agl_wind : {0}, agl_temp : {0},
                    stationId : StationIds, stationPassword : StationPasswords,
                    apiKey : ApiKeys] :
               ~(c.forceUpdate /\ c.minMove = 0)}

-----------------------------------------------------------------------------
(* Arithmetic helpers *)

Abs(x) == IF x < 0 THEN 0 - x ELSE x

(* Natural numbers of any size: sequences of limbs of 15 bits, the least    *)
(* significant first, without a zero limb at the end; 0 is <<>>.  Every      *)
(* operator binds its operands to their values once.                         *)

\* 2^15: products of two limbs stay below 2^31
Limb == 32768

RECURSIVE Pow2(_)
Pow2(k) == IF k = 0 THEN 1 ELSE 2 * Pow2(k - 1)

RECURSIVE BigNorm(_)
BigNorm(a) ==
    CHOOSE r \in {IF x = <<>> \/ x[Len(x)] # 0 THEN x
                  ELSE BigNorm(SubSeq(x, 1, Len(x) - 1)) : x \in {a}} : TRUE

RECURSIVE BigFromInt(_)
BigFromInt(n) ==
    CHOOSE r \in {IF x = 0 THEN <<>> ELSE <<x % Limb>> \o BigFromInt(x \div Limb)
                  : x \in {n}} : TRUE

\* the value of a number below 2^31
RECURSIVE BigToInt(_)
BigToInt(a) ==
    CHOOSE r \in {IF x = <<>> THEN 0 ELSE x[1] + Limb * BigToInt(Tail(x))
                  : x \in {a}} : TRUE

\* a + b + c for a carry c
RECURSIVE BigAddC(_, _, _)
BigAddC(a, b, c) ==
    CHOOSE r \in
        {IF x = <<>> /\ y = <<>> THEN (IF z = 0 THEN <<>> ELSE <<z>>)
         ELSE IF x = <<>> THEN <<(y[1] + z) % Limb>> \o BigAddC(x, Tail(y), (y[1] + z) \div Limb)
         ELSE IF y = <<>> THEN <<(x[1] + z) % Limb>> \o BigAddC(Tail(x), y, (x[1] + z) \div Limb)
         ELSE <<(x[1] + y[1] + z) % Limb>> \o
                  BigAddC(Tail(x), Tail(y), (x[1] + y[1] + z) \div Limb)
         : x \in {a}, y \in {b}, z \in {c}} : TRUE

BigAdd(a, b) == BigAddC(a, b, 0)

\* a - b - c for a borrow c and a >= b + c, limb by limb
RECURSIVE BigSubB(_, _, _)
BigSubB(a, b, c) ==
    CHOOSE r \in
        {IF x = <<>> THEN <<>>
         ELSE IF y = <<>>
         THEN <<(x[1] - z + Limb) % Limb>> \o
                  BigSubB(Tail(x), y, IF x[1] - z < 0 THEN 1 ELSE 0)
         ELSE <<(x[1] - y[1] - z + Limb) % Limb>> \o
                  BigSubB(Tail(x), Tail(y), IF x[1] - y[1] - z < 0 THEN 1 ELSE 0)
         : x \in {a}, y \in {b}, z \in {c}} : TRUE

BigSub(a, b) == BigNorm(BigSubB(a, b, 0))

\* a * k + c for 0 <= k, c < 2^15
RECURSIVE BigMulSmallC(_, _, _)
BigMulSmallC(a, k, c) ==
    CHOOSE r \in
        {IF x = <<>> THEN (IF z = 0 THEN <<>> ELSE <<z>>)
         ELSE <<(x[1] * k + z) % Limb>> \o BigMulSmallC(Tail(x), k, (x[1] * k + z) \div Limb)
         : x \in {a}, z \in {c}} : TRUE

BigMulSmall(a, k) == IF k = 0 THEN <<>> ELSE BigMulSmallC(a, k, 0)

\* a * 2^(15 n)
BigShlLimbs(a, n) ==
    CHOOSE r \in {IF x = <<>> THEN x ELSE [i \in 1..n |-> 0] \o x : x \in {a}} : TRUE

RECURSIVE BigMul(_, _)
BigMul(a, b) ==
    CHOOSE r \in
        {IF y = <<>> \/ x = <<>> THEN <<>>
         ELSE BigAdd(BigMulSmall(x, y[1]), BigShlLimbs(BigMul(x, Tail(y)), 1))
         : x \in {a}, y \in {b}} : TRUE

\* a < b
RECURSIVE BigLess(_, _)
BigLess(a, b) ==
    CHOOSE r \in
        {IF Len(x) # Len(y) THEN Len(x) < Len(y)
         ELSE IF x = <<>> THEN FALSE
         ELSE IF x[Len(x)] # y[Len(y)] THEN x[Len(x)] < y[Len(y)]
         ELSE BigLess(SubSeq(x, 1, Len(x) - 1), SubSeq(y, 1, Len(y) - 1))
         : x \in {a}, y \in {b}} : TRUE

\* <<a \div d, a % d>> for 0 < d <= 2^15; the quotient may end in zero limbs
RECURSIVE BigDivRem(_, _)
BigDivRem(a, d) ==
    CHOOSE r \in
        {IF x = <<>> THEN <<<<>>, 0>>
         ELSE CHOOSE q \in {<<<<(h[2] * Limb + x[1]) \div d>> \o h[1],
                              (h[2] * Limb + x[1]) % d>>
                            : h \in {BigDivRem(Tail(x), d)}} : TRUE
         : x \in {a}} : TRUE

\* a * 2^k
BigShl(a, k) == BigShlLimbs(BigMulSmall(a, Pow2(k % 15)), k \div 15)

\* the limbs of a from limb n + 1 on: a \div 2^(15 n)
BigShrLimbs(a, n) ==
    CHOOSE r \in {IF Len(x) <= n THEN <<>> ELSE SubSeq(x, n + 1, Len(x)) : x \in {a}} : TRUE

\* a \div 2^k
BigShr(a, k) == BigNorm(BigDivRem(BigShrLimbs(a, k \div 15), Pow2(k % 15))[1])

\* bit k of a (bit 0 is the lowest)
BigBit(a, k) ==
    CHOOSE r \in {IF Len(x) <= k \div 15 THEN 0
                  ELSE (x[k \div 15 + 1] \div Pow2(k % 15)) % 2 : x \in {a}} : TRUE

\* a % 2^k = 0
BigLowZero(a, k) ==
    CHOOSE r \in {/\ \A i \in 1..(k \div 15) : i > Len(x) \/ x[i] = 0
                  /\ Len(x) <= k \div 15 \/ x[k \div 15 + 1] % Pow2(k % 15) = 0
                  : x \in {a}} : TRUE

\* the number of bits of n < 2^15
RECURSIVE BitLen(_)
BitLen(n) == IF n = 0 THEN 0 ELSE 1 + BitLen(n \div 2)

\* the number of bits of a
BigBits(a) ==
    CHOOSE r \in {IF x = <<>> THEN 0 ELSE 15 * (Len(x) - 1) + BitLen(x[Len(x)])
                  : x \in {a}} : TRUE

\* The largest digit d, built from bit k down, with (acc + d * Limb^j)^2 <= n
RECURSIVE BigSqrtDigit(_, _, _, _, _)
BigSqrtDigit(n, acc, j, d, k) ==
    CHOOSE r \in
        {IF k < 0 THEN d
         ELSE CHOOSE s \in {IF BigLess(n, BigMul(t, t)) THEN BigSqrtDigit(n, x, j, d, k - 1)
                                                        ELSE BigSqrtDigit(n, x, j, d + Pow2(k), k - 1)
                            : t \in {BigAdd(x, BigShlLimbs(<<d + Pow2(k)>>, j))}} : TRUE
         : x \in {acc}} : TRUE

\* The root's limbs from limb j down
RECURSIVE BigSqrtLimbs(_, _, _)
BigSqrtLimbs(n, acc, j) ==
    IF j < 0 THEN acc
    ELSE BigSqrtLimbs(n, CHOOSE r \in {BigAdd(acc, BigNorm(BigShlLimbs(<<d>>, j)))
                                       : d \in {BigSqrtDigit(n, acc, j, 0, 14)}} : TRUE,
                      j - 1)

\* floor of the square root
BigSqrt(n) ==
    CHOOSE r \in {BigSqrtLimbs(x, <<>>, (Len(x) + 1) \div 2 - 1) : x \in {n}} : TRUE

-----------------------------------------------------------------------------
(* IEEE 754 doubles.  A finite double is <<s, e, m>>, its value             *)
(* (-1)^s * m * 2^e with a significand 2^52 <= m < 2^53, and 0 is Zero.      *)
(* Every operation computes the exact result and rounds it to the nearest    *)
(* double, to the even significand at a tie.  Subnormal numbers, infinities  *)
(* and the sign of zero are left out: no operand of the program gets there.  *)

Zero == <<0, 0, <<>>>>

\* The double nearest to n * 2^e
FRound(s, n, e) ==
    CHOOSE r \in
        {IF x = <<>> THEN Zero
         ELSE IF BigBits(x) <= 53
         THEN <<s, e - (53 - BigBits(x)), BigShl(x, 53 - BigBits(x))>>
         ELSE CHOOSE p \in
                  {CHOOSE u \in
                       {IF BigBits(q) = 54 THEN <<s, e + k + 1, BigShr(q, 1)>>
                                           ELSE <<s, e + k, q>>
                        : q \in {IF BigBit(x, k - 1) = 1 /\
                                    (~BigLowZero(x, k - 1) \/ BigBit(x, k) = 1)
                                 THEN BigAdd(BigShr(x, k), <<1>>)
                                 ELSE BigShr(x, k)}} : TRUE
                   : k \in {BigBits(x) - 53}} : TRUE
         : x \in {n}} : TRUE

\* 2 q, plus 1 when the exact value lies above q: a bit below the last one
\* that keeps the rounding exact
Sticky(q, inexact) == BigAdd(BigShl(q, 1), IF inexact THEN <<1>> ELSE <<>>)

FNeg(a) ==
    CHOOSE r \in {IF x[3] = <<>> THEN x ELSE <<1 - x[1], x[2], x[3]>> : x \in {a}} : TRUE

FAbs(a) == CHOOSE r \in {<<0, x[2], x[3]>> : x \in {a}} : TRUE

\* a * b
FMul(a, b) ==
    CHOOSE r \in
        {IF x[3] = <<>> \/ y[3] = <<>> THEN Zero
         ELSE FRound((x[1] + y[1]) % 2, BigMul(x[3], y[3]), x[2] + y[2])
         : x \in {a}, y \in {b}} : TRUE

\* a + b for |a| of the larger exponent: an operand more than 64 binary
\* places below the other does not change it; the sign is that of the
\* operand of the larger magnitude, and equal magnitudes of opposite signs
\* give Zero
FAddOrdered(a, b) ==
    CHOOSE r \in
        {IF x[2] - y[2] > 64 THEN x
         ELSE CHOOSE u \in
                  {CHOOSE t \in
                       {FRound(IF larger THEN x[1] ELSE y[1],
                               IF x[1] = y[1] THEN BigAdd(n, y[3])
                               ELSE BigSub(IF larger THEN n ELSE y[3],
                                           IF larger THEN y[3] ELSE n),
                               y[2])
                        : larger \in {x[1] = y[1] \/ BigLess(y[3], n)}} : TRUE
                   : n \in {BigShl(x[3], x[2] - y[2])}} : TRUE
         : x \in {a}, y \in {b}} : TRUE

\* a + b
FAdd(a, b) ==
    CHOOSE r \in
        {IF x[3] = <<>> THEN y
         ELSE IF y[3] = <<>> THEN x
         ELSE FAddOrdered(IF x[2] >= y[2] THEN x ELSE y, IF x[2] >= y[2] THEN y ELSE x)
         : x \in {a}, y \in {b}} : TRUE

\* a - b
FSub(a, b) == FAdd(a, FNeg(b))

\* a / k for an integer 0 < k <= 2^15
FDivSmall(a, k) ==
    CHOOSE r \in
        {IF x[3] = <<>> THEN Zero
         ELSE CHOOSE t \in {FRound(x[1], Sticky(BigNorm(qr[1]), qr[2] # 0), x[2] - 31)
                            : qr \in {BigDivRem(BigShl(x[3], 30), k)}} : TRUE
         : x \in {a}} : TRUE

\* The double of the integer n
FFromInt(n) == FRound(IF n < 0 THEN 1 ELSE 0, BigFromInt(IF n < 0 THEN 0 - n ELSE n), 0)

\* The double nearest to n / 1000000: the number a decimal literal with six
\* decimals stands for
FFromMicro(n) ==
    CHOOSE r \in
        {CHOOSE t \in
             {FRound(IF n < 0 THEN 1 ELSE 0,
                     Sticky(BigNorm(qr2[1]), qr1[2] # 0 \/ qr2[2] # 0), 0 - 76)
              : qr2 \in {BigDivRem(BigNorm(qr1[1]), 1000)}} : TRUE
         : qr1 \in {BigDivRem(BigShl(BigFromInt(IF n < 0 THEN 0 - n ELSE n), 75), 1000)}} : TRUE

\* Math.sqrt(a) for a >= 0: the root of m * 2^t, with t = 58 or 59 so that
\* the exponent left is even
FSqrt(a) ==
    CHOOSE r \in
        {IF x[3] = <<>> THEN Zero
         ELSE CHOOSE u \in
                  {CHOOSE v \in
                       {CHOOSE w \in
                            {FRound(0, Sticky(root, BigMul(root, root) # n), (x[2] - t) \div 2 - 1)
                             : root \in {BigSqrt(n)}} : TRUE
                        : n \in {BigShl(x[3], t)}} : TRUE
                   : t \in {IF (x[2] - 58) % 2 = 0 THEN 58 ELSE 59}} : TRUE
         : x \in {a}} : TRUE

\* Math.round(a) for 0 <= a < 2^30: floor(a + 1/2)
FRoundInt(a) ==
    CHOOSE r \in
        {IF x[3] = <<>> THEN 0
         ELSE IF x[2] >= 0 THEN BigToInt(BigShl(x[3], x[2]))
         ELSE IF 0 - x[2] > 54 THEN 0
         ELSE BigToInt(BigShr(BigAdd(x[3], BigShl(<<1>>, 0 - x[2] - 1)), 0 - x[2]))
         : x \in {a}} : TRUE

\* a < b for a, b >= 0
FLess(a, b) ==
    CHOOSE r \in
        {IF y[3] = <<>> THEN FALSE
         ELSE IF x[3] = <<>> THEN TRUE
         ELSE IF x[2] # y[2] THEN x[2] < y[2]
         ELSE BigLess(x[3], y[3])
         : x \in {a}, y \in {b}} : TRUE

\* a >= b for a, b >= 0
FGeq(a, b) == ~FLess(a, b)


-----------------------------------------------------------------------------
(* Constants of Math.cos *)

\* Math.PI
Pi == <<0, -51, <<11544, 10376, 2029, 201>>>>

\* 1.0
One == <<0, -52, <<0, 0, 0, 128>>>>

\* 0.5
Half == <<0, -53, <<0, 0, 0, 128>>>>

\* 2^-27: below it cos is 1 and sin is its argument
Tiny == <<0, -79, <<0, 0, 0, 128>>>>



\* pio2_1: first 33 bits of pi/2
PiOver2Head == <<0, -52, <<0, 10368, 2029, 201>>>>

\* pio2_1t: pi/2 - pio2_1
PiOver2Tail == <<0, -86, <<25393, 13508, 20868, 133>>>>

\* pio2_2: second 33 bits of pi/2
PiOver2Head2 == <<0, -86, <<0, 13504, 20868, 133>>>>

\* pio2_2t: pi/2 - (pio2_1 + pio2_2)
PiOver2Tail2 == <<0, -121, <<28787, 23558, 26152, 152>>>>

\* C1 .. C6 of __kernel_cos
CosCoeff ==
    <<<<0, -57, <<21836, 10922, 21845, 170>>>>,
      <<1, -62, <<20855, 11650, 1456, 182>>>>,
      <<0, -68, <<5520, 13206, 1664, 208>>>>,
      <<1, -74, <<21165, 312, 31038, 147>>>>,
      <<0, -81, <<12740, 31593, 14970, 143>>>>,
      <<1, -89, <<14548, 32016, 27558, 199>>>>>>

\* S1 .. S6 of __kernel_sin
SinCoeff ==
    <<<<1, -55, <<21833, 10922, 21845, 170>>>>,
      <<0, -59, <<30886, 8737, 17476, 136>>>>,
      <<1, -65, <<25045, 13186, 1664, 208>>>>,
      <<0, -71, <<32381, 12131, 30605, 184>>>>,
      <<1, -78, <<7403, 5207, 6042, 215>>>>,
      <<0, -85, <<21884, 13727, 25833, 174>>>>>>

-----------------------------------------------------------------------------
(* Math.cos as V8 computes it (its port of fdlibm: __kernel_cos,            *)
(* __kernel_sin and, past pi/4, the reduction by pi/2 of __ieee754_rem_pio2) *)
(* for an argument 0 <= x < 3 pi / 4.                                        *)

\* c[1] + z * (c[2] + z * (... + z * c[n]))
RECURSIVE Horner(_, _)
Horner(z, c) ==
    IF Len(c) = 1 THEN c[1] ELSE FAdd(c[1], FMul(z, Horner(z, Tail(c))))

\* __kernel_cos(x, 0) for x >= 0: below 0.3 (high word 0x3FD33333) the short
\* form; else qx is 0.28125 from 0.78125 on (high word above 0x3FE90000) and
\* x / 4 with the low word cleared below it
KernelCos(x) ==
    CHOOSE r \in
        {IF FLess(v, Tiny) THEN One
         ELSE CHOOSE r1 \in
                  {CHOOSE r2 \in
                       {IF FLess(v, <<0, -54, <<0, 0, 19660, 153>>>>) THEN FSub(One, FSub(hz, zr))
                        ELSE CHOOSE r3 \in
                                 {FSub(FSub(One, qx), FSub(FSub(hz, qx), zr))
                                  : qx \in {IF FGeq(v, <<0, -53, <<0, 0, 4, 200>>>>) THEN <<0, -54, <<0, 0, 0, 144>>>>
                                            ELSE <<0, v[2] - 2, BigShl(BigShr(v[3], 32), 32)>>}} : TRUE
                        : zr \in {FMul(z, FMul(z, Horner(z, CosCoeff)))},
                          hz \in {FMul(Half, z)}} : TRUE
                   : z \in {FMul(v, v)}} : TRUE
         : v \in {x}} : TRUE

\* __kernel_sin(x, y, 1): the sine of x + y for the tail y of x
KernelSin(x, y) ==
    CHOOSE r \in
        {IF FLess(FAbs(v), Tiny) THEN v
         ELSE CHOOSE r1 \in
                  {CHOOSE r2 \in
                       {FSub(v, FSub(FSub(FMul(z, FSub(FMul(Half, w), FMul(vz, p))), w),
                                     FMul(vz, SinCoeff[1])))
                        : vz \in {FMul(z, v)}, p \in {Horner(z, Tail(SinCoeff))}} : TRUE
                   : z \in {FMul(v, v)}} : TRUE
         : v \in {x}, w \in {y}} : TRUE

\* x - pi/2 as head and tail <<y0, y1>>, for pi/4 < x < 3 pi / 4.  The doubles
\* with the high word 0x3FF921FB, next to pi/2, are those from
\* <<0, -52, <<0, 0, 2028, 201>>>> up to, not including,
\* <<0, -52, <<0, 0, 2032, 201>>>>: they need the second pair of constants.
RemPiOver2(x) ==
    CHOOSE r \in
        {CHOOSE r1 \in
             {IF FLess(v, <<0, -52, <<0, 0, 2028, 201>>>>) \/ FGeq(v, <<0, -52, <<0, 0, 2032, 201>>>>)
              THEN CHOOSE r2 \in {<<y0, FSub(FSub(z, y0), PiOver2Tail)>>
                                  : y0 \in {FSub(z, PiOver2Tail)}} : TRUE
              ELSE CHOOSE r3 \in
                       {CHOOSE r4 \in {<<y0, FSub(FSub(z2, y0), PiOver2Tail2)>>
                                       : y0 \in {FSub(z2, PiOver2Tail2)}} : TRUE
                        : z2 \in {FSub(z, PiOver2Head2)}} : TRUE
              : z \in {FSub(v, PiOver2Head)}} : TRUE
         : v \in {x}} : TRUE

\* Math.cos(x) for 0 <= x < 3 pi / 4: the kernel below pi/4 (the first double
\* with a high word above 0x3FE921FB), else after the reduction by pi/2
MathCos(x) ==
    CHOOSE r \in
        {IF FLess(v, <<0, -53, <<0, 0, 2032, 201>>>>) THEN KernelCos(v)
         ELSE CHOOSE r1 \in {FNeg(KernelSin(y[1], y[2])) : y \in {RemPiOver2(v)}} : TRUE
         : v \in {x}} : TRUE

\* Math.cos(lat * Math.PI / 180) for a latitude of lat microdegrees; the
\* cosine is even
CosLatitude(lat) == MathCos(FAbs(FDivSmall(FMul(FFromMicro(lat), Pi), 180)))

-----------------------------------------------------------------------------
(* Decimal conversions *)

\* v * 2^e mod m, by e doublings
RECURSIVE ShiftMod(_, _, _)
ShiftMod(v, e, m) == IF e = 0 THEN v % m ELSE (2 * ShiftMod(v, e - 1, m)) % m

\* floor(log2(v / den)) for v > 0: the binary exponent of the double v / den
RECURSIVE Log2(_, _)
Log2(v, den) ==
    IF v >= 2 * den THEN 1 + Log2(v \div 2, den)
    ELSE IF v < den THEN Log2(2 * v, den) - 1
    ELSE 0

\* The double nearest to v / den (v >= 0) minus v / den, in units of
\* 2^(Log2(v, den) - 52) / den: the 53-bit significand is v * 2^e / den rounded
\* to the nearest integer, to the even one at a half
DoubleErr(v, den) ==
    IF v = 0 THEN 0
    ELSE LET r2 == ShiftMod(v, 52 - Log2(v, den), 2 * den)
             r  == r2 % den
         IN  IF 2 * r < den THEN 0 - r
             ELSE IF 2 * r > den THEN den - r
             ELSE IF r2 >= den THEN den - r ELSE 0 - r

\* Number.prototype.toFixed of the double nearest to v / den, with one digit
\* less than v has, in units of 10 / den: the nearest, and at a tie of the
\* doubles the larger magnitude.  v / den is a tie only when v ends in 5, and
\* then the double decides.
ToFixed(v, den) ==
    LET a == Abs(v)
        n == IF a % 10 > 5 \/ (a % 10 = 5 /\ DoubleErr(a, den) >= 0)
             THEN a \div 10 + 1 ELSE a \div 10
    IN  IF v < 0 THEN 0 - n ELSE n

\* toFixed(1): hundredths to tenths
ToFixed1(v) == ToFixed(v, 100)

\* toFixed(5) of a coordinate in microdegrees, in units of 1e-5 degrees
ToFixed5(v) == ToFixed(v, 1000000)

\* (t - 273.15).toFixed(1) for the temperature t = T / 100 K, T >= 0, in
\* tenths of a degree.  The difference of the two doubles is rounded to a
\* double when t < 273.15 / 2; M is the magnitude of the result minus that of
\* (T - 27315) / 100 in units of 2^(jmin - 52) / 100.
Celsius(T) ==
    LET N    == T - KelvinOffset
        a    == Abs(N)
        jc   == Log2(KelvinOffset, 100)
        jt   == IF T = 0 THEN jc ELSE Log2(T, 100)
        jmin == IF jt <= jc THEN jt ELSE jc
        E    == DoubleErr(T, 100) * 2^(jt - jmin)
                  - DoubleErr(KelvinOffset, 100) * 2^(jc - jmin)
        M0   == IF N > 0 THEN E ELSE 0 - E
        s    == Log2(a, 100) - jmin
        K    == ((ShiftMod(a, 52 - jmin, 100 * 2^(s + 1)) + M0) % (100 * 2^(s + 1))) \div 100
        low  == K % 2^s
        up   == 2 * low > 2^s \/ (2 * low = 2^s /\ (K \div 2^s) % 2 = 1)
        M    == IF s <= 0 THEN M0
                ELSE IF up THEN M0 + 100 * (2^s - low) ELSE M0 - 100 * low
        n    == IF a % 10 > 5 \/ (a % 10 = 5 /\ M >= 0) THEN a \div 10 + 1 ELSE a \div 10
    IN  IF N < 0 THEN 0 - n ELSE n

\* Math.round(num / den) for den > 0 and a quotient that is a double when it
\* lies halfway: the nearest integer, halves towards +infinity
Round(num, den) == (2 * num + den) \div (2 * den)

\* Math.round(h * 100) for the ratio h = H / 1000, H >= 0.  The product of the
\* double nearest to h and 100 is rounded to a double; it lies below a half
\* k + 1/2 = H / 10 only when the error of h, times 100, is more than half a
\* unit in the last place of the product.
RoundPercent(H) ==
    IF H % 10 # 5 THEN Round(H, 10)
    ELSE IF 100 * DoubleErr(H, 1000) < 0 - 1000 * 2^(Log2(H, 10) - Log2(H, 1000) - 1)
         THEN H \div 10
         ELSE H \div 10 + 1

\* a * b as <<high, low>>, two limbs of 30 bits, for 0 <= a, b <= 2^30; the
\* operands are bound to their values once
MulWide(a, b) ==
    CHOOSE product \in
        {LET a1 == x \div Limb
             a0 == x % Limb
             b1 == y \div Limb
             b0 == y % Limb
             t  == a1 * b0 + a0 * b1
             lo == (t % Limb) * Limb + a0 * b0
         IN  <<a1 * b1 + t \div Limb + lo \div (Limb * Limb), lo % (Limb * Limb)>>
         : x \in {a}, y \in {b}} : TRUE

\* Math.round((d * 180) / Math.PI) for the angle d = D / 1000 rad, |D| < 2^15;
\* 61520876 is 180 / Math.PI per milliradian (0.0572957795130823) scaled by
\* 2^30
RoundDegrees(D) ==
    LET n == (MulWide(Abs(D) * Limb, 61520876)[1] + Limb \div 2) \div Limb
    IN  IF D < 0 THEN 0 - n ELSE n

-----------------------------------------------------------------------------
(* Movement guard *)

\* (mutant) (0,0) is a baseline like any other
BaselineUnsetNever(base) == FALSE

\* `!lastSentPos.lat`: a latitude of 0 counts as no baseline
BaselineUnset(base) == base.lat = 0

\* The values of CosLatitude at the latitudes of the input sets, computed
\* once: latitude |-> cosine
CosTable == [lat \in {p.lat : p \in ModelPositions} |-> CosLatitude(lat)]

\* kx for a baseline at latitude lat: the table's value where it has one
Cos(lat) ==
    CHOOSE r \in
        {IF lat \in DOMAIN known THEN known[lat] ELSE CosLatitude(lat)
         : known \in {CosTable}} : TRUE

\* Math.sqrt(dx * dx + dy * dy) * 111319 with dx = (pos.longitude -
\* lastSentPos.lon) * kx and dy = pos.latitude - lastSentPos.lat, every
\* operation rounded to a double as it is made
Measure(base, k, pos) ==
    CHOOSE r \in
        {FMul(FSqrt(FAdd(FMul(dx, dx), FMul(dy, dy))), FFromInt(MetresPerDegree))
         : dx \in {FMul(FSub(FFromMicro(pos.lon), FFromMicro(base.lon)), k)},
           dy \in {FSub(FFromMicro(pos.lat), FFromMicro(base.lat))}} : TRUE

\* The values of Measure between the positions of the input sets, with each
\* kx of the table, computed once: <<base, kx, pos>> |-> distance
DistanceTable ==
    [q \in {<<base, c[2], pos>> :
               base \in ModelPositions, pos \in ModelPositions,
               c \in {<<lat, CosTable[lat]>> : lat \in DOMAIN CosTable}} |->
        Measure(q[1], q[2], q[3])]

\* The distance of handlePositionUpdate: the table's value where it has one
Distance(base, k, pos) ==
    CHOOSE r \in
        {IF <<base, k, pos>> \in DOMAIN known THEN known[<<base, k, pos>>]
         ELSE Measure(base, k, pos)
         : known \in {DistanceTable}} : TRUE

-----------------------------------------------------------------------------
(* Numbers in JSON text.  JSON.stringify writes a double as the decimal     *)
(* with the fewest digits that reads back as the same double, the nearest   *)
(* one when several have that many digits (Number::toString), and           *)
(* JSON.parse reads a decimal as the double nearest to it, the even         *)
(* significand at a tie.  A decimal is [neg, s, e]: the sign, the digits s   *)
(* as a natural number without a zero at the end, and its value s * 10^e;    *)
(* 0 is the text with no digit.  Both ways work on the exact values.         *)

\* a * 5^k
RECURSIVE BigTimesPow5(_, _)
BigTimesPow5(a, k) ==
    IF k >= 5 THEN BigTimesPow5(BigMulSmall(a, 3125), k - 5)
    ELSE BigMulSmall(a, <<1, 5, 25, 125, 625>>[k + 1])

\* <<a \div 5^k, whether a remainder was left or inexact holds>>
RECURSIVE BigDivPow5(_, _, _)
BigDivPow5(a, k, inexact) ==
    IF k = 0 THEN <<BigNorm(a), inexact>>
    ELSE CHOOSE r \in
             {BigDivPow5(BigNorm(h[1]), IF k >= 5 THEN k - 5 ELSE 0, inexact \/ h[2] # 0)
              : h \in {BigDivRem(a, IF k >= 5 THEN 3125 ELSE <<1, 5, 25, 125, 625>>[k + 1])}} : TRUE

\* A decimal at the distance a from the double reads back as the double:
\* gap = <<u, low, even>> with u the distance to the next double, a counted
\* in halves of it (in quarters below a power of two, where the doubles lie
\* twice as close); the end of the range belongs to an even significand
InGap(a, gap) == BigLess(a, gap[1]) \/ (gap[3] /\ a = gap[1])

\* Digits dropped from the end while a decimal of the shorter length reads
\* back: c = <<q, r, p, j>> with the exact value q * p + r, p = 10^j and
\* r < p; d = <<10^n, n>> drops n digits at a time.  The candidates of a
\* length are q * p, r below the value, and (q + 1) * p, p - r above it.
RECURSIVE Shorten(_, _, _)
Shorten(c, gap, d) ==
    CHOOSE res \in
        {CHOOSE n \in
             {IF InGap(BigMulSmall(r, gap[2]), gap) \/ InGap(BigMulSmall(BigSub(p, r), 2), gap)
              THEN Shorten(<<BigNorm(h[1]), r, p, c[4] + d[2]>>, gap, d)
              ELSE c
              : r \in {BigAdd(c[2], BigMulSmall(c[3], h[2]))},
                p \in {BigMulSmall(c[3], d[1])}} : TRUE
         : h \in {BigDivRem(c[1], d[1])}} : TRUE

\* Number::toString(x): the exact value of |x| is m * 5^-e / 10^-e
\* for e < 0 and m * 2^e otherwise; of the two candidates of the shortest
\* length the one that reads back, the nearer one when both do, the even one
\* when they are as near
ShortestDecimal(x) ==
    IF x[3] = <<>> THEN [neg |-> FALSE, s |-> <<>>, e |-> 0]
    ELSE CHOOSE t \in
        {CHOOSE v \in
             {CHOOSE w \in
                  {[neg |-> x[1] = 1,
                    s |-> IF (IF lo /\ hi
                              THEN BigLess(c[3], twice) \/
                                   (twice = c[3] /\ c[1] # <<>> /\ c[1][1] % 2 = 1)
                              ELSE hi)
                          THEN BigAdd(c[1], <<1>>) ELSE c[1],
                    e |-> c[4] + (IF x[2] < 0 THEN x[2] ELSE 0)]
                   : lo \in {InGap(BigMulSmall(c[2], gap[2]), gap)},
                     hi \in {InGap(BigMulSmall(BigSub(c[3], c[2]), 2), gap)},
                     twice \in {BigMulSmall(c[2], 2)}} : TRUE
              : c \in {Shorten(Shorten(<<BigMul(x[3], gap[1]), <<>>, <<1>>, 0>>,
                                       gap, <<10000, 4>>), gap, <<10, 1>>)}} : TRUE
         : gap \in {<<IF x[2] < 0 THEN BigTimesPow5(<<1>>, 0 - x[2]) ELSE BigShl(<<1>>, x[2]),
                      IF x[3] = <<0, 0, 0, 128>> THEN 4 ELSE 2,
                      x[3][1] % 2 = 0>>}} : TRUE

\* StringToNumber of the decimal t: s * 5^e * 2^e for e >= 0, else the
\* quotient of s * 2^(64 - 3e) by 5^-e with a bit for what the division left
NearestDouble(t) ==
    IF t.s = <<>> THEN Zero
    ELSE IF t.e >= 0
    THEN FRound(IF t.neg THEN 1 ELSE 0, BigShl(BigTimesPow5(t.s, t.e), t.e), 0)
    ELSE CHOOSE r \in
             {FRound(IF t.neg THEN 1 ELSE 0, Sticky(h[1], h[2]), 4 * t.e - 65)
              : h \in {BigDivPow5(BigShl(t.s, 64 - 3 * t.e), 0 - t.e, FALSE)}} : TRUE

\* What is computed from the distances between the positions of the input
\* sets, computed once: the distance |-> <<its decimal, the double the
\* decimal reads as, Math.round of the distance>>
NumberTable ==
    [x \in {Zero} \cup {DistanceTable[q] : q \in DOMAIN DistanceTable} |->
        CHOOSE n \in {<<t, NearestDouble(t), FRoundInt(x)>>
                       : t \in {ShortestDecimal(x)}} : TRUE]

\* JSON.stringify of the number x: the table's decimal where it has one
NumberToString(x) ==
    CHOOSE r \in
        {IF x \in DOMAIN known THEN known[x][1] ELSE ShortestDecimal(x)
         : known \in {NumberTable}} : TRUE

\* JSON.parse of the decimal t: the table's double where it has one
StringToNumber(t) ==
    CHOOSE r \in
        {CHOOSE n \in {IF rows = {} THEN NearestDouble(t)
                        ELSE known[CHOOSE x \in rows : TRUE][2]
                        : rows \in {{x \in DOMAIN known : known[x][1] = t}}} : TRUE
         : known \in {NumberTable}} : TRUE

\* The decimals of the coordinates of the input sets
CoordinateTable ==
    [n \in {p.lat : p \in ModelPositions} \cup {p.lon : p \in ModelPositions} |->
        ShortestDecimal(FFromMicro(n))]

\* JSON.stringify of the coordinate n, a whole number of microdegrees that
\* stands for the double nearest to n / 1000000: the table's decimal where
\* it has one
CoordinateToString(n) ==
    CHOOSE r \in
        {IF n \in DOMAIN known THEN known[n] ELSE ShortestDecimal(FFromMicro(n))
         : known \in {CoordinateTable}} : TRUE

\* The coordinate JSON.parse reads from the decimal t: the double nearest to
\* it, which the state holds as the number n of microdegrees when t is a
\* decimal of n microdegrees.  Digits past the sixth decimal are cut off.
MicroDegrees(t) ==
    IF t.s = <<>> THEN 0
    ELSE (IF t.neg THEN 0 - 1 ELSE 1) *
         BigToInt(IF t.e + 6 >= 0
                  THEN BigShl(BigTimesPow5(t.s, t.e + 6), t.e + 6)
                  ELSE BigShr(BigDivPow5(t.s, 0 - (t.e + 6), FALSE)[1], 0 - (t.e + 6)))

\* (mutant) the distance is summed up sample by sample
handlePositionUpdateSum(m, pos) ==
    IF m.lastSentPos.lat = 0
    THEN [m EXCEPT !.lastSentPos = pos, !.kx = Cos(pos.lat)]
    ELSE [m EXCEPT !.currentDistance =
                       FAdd(m.currentDistance, Distance(m.lastSentPos, m.kx, pos))]

\* (mutant) the distance keeps the largest radius seen since the baseline
handlePositionUpdateMax(m, pos) ==
    IF m.lastSentPos.lat = 0
    THEN [m EXCEPT !.lastSentPos = pos, !.kx = Cos(pos.lat)]
    ELSE LET d == Distance(m.lastSentPos, m.kx, pos)
         IN  [m EXCEPT !.currentDistance = IF FLess(m.currentDistance, d)
                                           THEN d ELSE m.currentDistance]

\* handlePositionUpdate(pos) on the movement state m = [lastSentPos, kx,
\* currentDistance]: the movement state it leaves
handlePositionUpdate(m, pos) ==
    IF BaselineUnset(m.lastSentPos)
    THEN [m EXCEPT !.lastSentPos = pos, !.kx = Cos(pos.lat)]
    ELSE [m EXCEPT !.currentDistance = Distance(m.lastSentPos, m.kx, pos)]

\* shouldUpdateGPS of reportToWindy: `force || currentDistance >=
\* (options.minMove || 300)`, a comparison of doubles
shouldUpdateGPS(options, force) ==
    force \/ FGeq(currentDistance,
                  FFromInt(IF options.minMove = 0 THEN DefaultMinMove ELSE options.minMove))

\* (options.interval || 5) * 60000
IntervalMs(options) ==
    (IF options.interval = 0 THEN DefaultInterval ELSE options.interval) * MsPerMinute

-----------------------------------------------------------------------------
(* Observation snapshot *)

SensorKeys == {"wind", "gust", "winddir", "temp", "pressure", "rh"}

\* The value of a key that is in the snapshot and is not a number: NaN, or
\* the string "NaN".  It differs from None and from every Some(v).
NaN == <<"NaN", "NaN">>

\* getStationData: a key is None when the code leaves it out of the object;
\* keys is Object.keys of the object, the keys it has in the order in which
\* they were assigned.
\* Inputs: wind and gust in cm/s, dir in milliradians, temp in centikelvin,
\* pressure in tenths of a pascal, humidity in thousandths.  A node whose
\* value is undefined passes `!== null`: Math.round(undefined) and
\* `undefined - 273.15` are NaN, and (NaN).toFixed(1) is "NaN".
getStationData(b) ==
    [wind     |-> IF HasValue(b.wind) THEN Some(ToFixed1(Val(b.wind))) ELSE None,
     gust     |-> IF HasValue(b.gust) THEN Some(ToFixed1(Val(b.gust))) ELSE None,
     winddir  |-> IF b.dir = BadNode THEN NaN
                  ELSE IF HasValue(b.dir) THEN Some(RoundDegrees(Val(b.dir))) ELSE None,
     temp     |-> IF b.temp = BadNode THEN NaN
                  ELSE IF HasValue(b.temp) THEN Some(Celsius(Val(b.temp))) ELSE None,
     pressure |-> IF b.pressure = BadNode THEN NaN
                  ELSE IF HasValue(b.pressure) THEN Some(Round(Val(b.pressure), 10))
                  ELSE None,
     rh       |-> IF b.humidity = BadNode THEN NaN
                  ELSE IF HasValue(b.humidity) THEN Some(RoundPercent(Val(b.humidity)))
                  ELSE None,
     keys     |-> (IF HasValue(b.wind) THEN <<"wind">> ELSE <<>>) \o
                  (IF HasValue(b.gust) THEN <<"gust">> ELSE <<>>) \o
                  (IF b.dir \notin {None, NullNode} THEN <<"winddir">> ELSE <<>>) \o
                  (IF b.temp \notin {None, NullNode} THEN <<"temp">> ELSE <<>>) \o
                  (IF b.pressure \notin {None, NullNode} THEN <<"pressure">> ELSE <<>>) \o
                  (IF b.humidity \notin {None, NullNode} THEN <<"rh">> ELSE <<>>)]

\* getStationData throws a TypeError: toFixed is called on the value of the
\* wind and gust nodes
getStationDataThrows(b) == \E k \in {"wind", "gust"} : b[k] = BadNode

\* (mutant) the peak replaces the gust only when there is no native gust
GapCloserOnlyWhenMissing(weather, peak) ==
    IF weather.gust = None /\ peak > 0
    THEN [weather EXCEPT !.gust = Some(ToFixed1(peak)), !.keys = Append(@, "gust")]
    ELSE weather

\* (mutant) the peak is never put into the snapshot
GapCloserOff(weather, peak) == weather

\* GAP CLOSER: peakGust > (weather.gust || 0) replaces the gust by the peak.
\* The assignment keeps the place of a gust key the object has and puts a new
\* one after the other keys.
GapCloser(weather, peak) ==
    IF peak > (IF weather.gust = None THEN 0 ELSE Val(weather.gust) * 10)
    THEN [weather EXCEPT !.gust = Some(ToFixed1(peak)),
                         !.keys = IF weather.gust = None THEN Append(@, "gust") ELSE @]
    ELSE weather

\* Object.keys(weather).length > 0
NonEmpty(weather) == \E k \in SensorKeys : weather[k] # None

-----------------------------------------------------------------------------
(* Status line: the message last given to setPluginStatus / setPluginError. *)
(* kind names the message, code is the HTTP status of an error (0 = N/A),   *)
(* delta the distance shown, retry the retry_after of a 429 body.           *)

(* report the lastReportString shown in front of it ('' when there is       *)
(* none).  The countdown of a heartbeat message is left out.                *)

StatusMsg(kind, code, delta, retry) ==
    [kind |-> kind, code |-> code, delta |-> delta, retry |-> retry, report |-> ""]

\* A message that starts with lastReportString
StatusReport(kind, delta, report) ==
    [kind |-> kind, code |-> 0, delta |-> delta, retry |-> 0, report |-> report]

\* `Delta: ${Math.round(currentDistance)}m`: the table's value where it has
\* one
Delta(distance) ==
    CHOOSE r \in
        {IF distance \in DOMAIN known THEN known[distance][3] ELSE FRoundInt(distance)
         : known \in {NumberTable}} : TRUE

Blank == StatusMsg("", 0, 0, 0)

RemoveAt(seq, i) == [j \in 1..(Len(seq) - 1) |-> IF j < i THEN seq[j] ELSE seq[j + 1]]

-----------------------------------------------------------------------------
(* Log: a message is [level, text] with the level "debug" or "error" and    *)
(* the text a sequence of parts, each a piece of text or a number: the       *)
(* pieces of the template and the values put between them.  An object is     *)
(* printed member by member, name and value.  What comes from outside the    *)
(* program (the body of a response, the message of an exception) is one      *)
(* piece of text that is not told apart from another.                        *)

Text(s) == [str |-> s, num |-> 0]
Num(n) == [str |-> "", num |-> n]

\* JSON.stringify(metadataPayload): the members in the order of the object
\* literal; lat and lon in units of 1e-5 degrees, the heights in tenths of a
\* metre, NaN printed as null; the name, the share option, the station type
\* and the operator's text and URL are settings that the model does not
\* tell apart, each one piece of text
stringifyPayload(p) ==
    <<Text("name"), Text("options.stationName"),
      Text("share_option"), Text("rawShare"),
      Text("lat"), Num(p.lat), Text("lon"), Num(p.lon),
      Text("elev_m"), IF p.elev_m = NaN THEN Text("null") ELSE Num(Val(p.elev_m)),
      Text("agl_wind"), Num(p.agl_wind), Text("agl_temp"), Num(p.agl_temp),
      Text("station_type"), Text("options.station_type"),
      Text("operator_text"), Text("options.stationName"),
      Text("operator_url"), Text("options.operator_url")>>

\* JSON.stringify(weather): the members of the snapshot in the order of its
\* keys (that of getStationData, with a gust that the gap closer added after
\* the others); the number NaN is printed as null, the string "NaN" as it is
RECURSIVE stringifyWeather(_, _)
stringifyWeather(weather, keys) ==
    IF keys = <<>> THEN <<>>
    ELSE <<Text(Head(keys)),
           IF weather[Head(keys)] # NaN THEN Num(Val(weather[Head(keys)]))
           ELSE IF Head(keys) = "temp" THEN Text("NaN") ELSE Text("null")>>
         \o stringifyWeather(weather, Tail(keys))

\* (mutant) the debug line of the observation prints the query string
observationLogQuery(options, weather) ==
    [level |-> "debug",
     text  |-> <<Text("Windy Submission (GET): "),
                 Text("id"), Text(options.stationId),
                 Text("PASSWORD"), Text(options.stationPassword),
                 Text("ts"), Num(now \div 1000)>> \o
               stringifyWeather(weather, weather.keys)]

\* app.debug(`Windy Submission (GET): ${JSON.stringify(weather)}`), written
\* in reportToWindy(options) once weatherParams is built
observationLog(options, weather) ==
    [level |-> "debug",
     text  |-> <<Text("Windy Submission (GET): ")>> \o
               stringifyWeather(weather, weather.keys)]

-----------------------------------------------------------------------------
(* Initial state: the closure variables of module.exports (lines 365-374),  *)
(* an empty data tree and no state file.                                     *)

Init ==
    /\ cfg \in Configs
    /\ now = StartTime
    /\ running = FALSE
    /\ subscriptions = 0
    /\ timers = <<>>
    /\ timerLive = FALSE
    /\ statusTimer = "none"
    /\ lastSentPos = UnsetPos
    /\ currentDistance = Zero
    /\ nextRunTime = 0
    /\ kx = One
    /\ peakGust = 0
    /\ bus = [pos |-> None]
    /\ file = None
    /\ cycles = <<>>
    /\ status = Blank
    /\ lastReportString = ""
    /\ logged = <<>>
    /\ leaked = {}
    /\ exited = FALSE

-----------------------------------------------------------------------------
(* reportToWindy.  A cycle in flight is a record: requests holds the       *)
(* requests awaiting an answer, weather the snapshot, pos the position node *)
(* read at the start, sentAt the time of the pending request, meta the      *)
(* state of the metadata phase (skipped, pending, ok, failed).              *)

\* The credentials a request carries: id is the station id (in the path of
\* the PUT, the `id` parameter of the GET), PASSWORD the query parameter, key
\* the 'windy-api-key' header; None when the request has no such part.
metadataAuth(options) ==
    [id |-> options.stationId, PASSWORD |-> None, key |-> Some(options.apiKey)]

observationAuth(options) ==
    [id |-> options.stationId, PASSWORD |-> Some(options.stationPassword), key |-> None]

\* (mutant) the GET is sent together with the PUT
RequestsAtStartConcurrent(due, nonEmpty) ==
    (IF due THEN {"PUT"} ELSE {}) \cup (IF nonEmpty THEN {"GET"} ELSE {})

\* The requests issued before the first await: the PUT when the sync is due,
\* else the GET when the snapshot has a key, else none
RequestsAtStart(due, nonEmpty) ==
    IF due THEN {"PUT"} ELSE IF nonEmpty THEN {"GET"} ELSE {}

\* (mutant) a failed metadata phase ends the cycle
ObservationPhaseBlocked(c, i, st, dist, log) ==
    IF NonEmpty(c.weather) /\ c.meta # "failed"
    THEN /\ cycles' = [cycles EXCEPT ![i] = [c EXCEPT !.requests = {"GET"}, !.sentAt = now,
                                                      !.auth = observationAuth(cfg)]]
         /\ status' = st
         /\ logged' = Append(log, observationLog(cfg, c.weather))
    ELSE /\ cycles' = RemoveAt(cycles, i)
         /\ status' = st
         /\ logged' = log

\* (mutant) the GET is issued with an empty snapshot too
ObservationPhaseEmptyGet(c, i, st, dist, log) ==
    /\ cycles' = [cycles EXCEPT ![i] = [c EXCEPT !.requests = {"GET"}, !.sentAt = now,
                                                      !.auth = observationAuth(cfg)]]
    /\ status' = st
    /\ logged' = Append(log, observationLog(cfg, c.weather))

\* STEP 2 up to its await, reached when the PUT of cycle i is answered: the
\* GET is issued when the snapshot has a key, otherwise the cycle ends with
\* 'Waiting for sensor data'.  c is the cycle with its metadata outcome, st
\* the status so far, dist the distance to show and log the messages the
\* metadata phase has written.
ObservationPhase(c, i, st, dist, log) ==
    IF NonEmpty(c.weather)
    THEN /\ cycles' = [cycles EXCEPT ![i] = [c EXCEPT !.requests = {"GET"}, !.sentAt = now,
                                                      !.auth = observationAuth(cfg)]]
         /\ status' = st
         /\ logged' = Append(log, observationLog(cfg, c.weather))
    ELSE /\ cycles' = RemoveAt(cycles, i)
         /\ status' = StatusMsg("Waiting for sensor data", 0, Delta(dist), 0)
         /\ logged' = log

\* metadataPayload: lat and lon in units of 1e-5 degrees, elev_m in metres,
\* the heights as configured, in tenths of a metre (`|| 10`, `|| 2`).  The
\* altitude is `{ value: 0 }` without a node, Math.round(null) is 0 and
\* Math.round(undefined) is NaN, which the request body carries as null.
metadataPayload(options, p, sensors) ==
    [lat      |-> ToFixed5(p.lat),
     lon      |-> ToFixed5(p.lon),
     elev_m   |-> IF sensors.altitude = BadNode THEN NaN
                  ELSE IF HasValue(sensors.altitude)
                  THEN Some(Round(Val(sensors.altitude), 100))
                  ELSE Some(0),
     agl_wind |-> IF options.agl_wind = 0 THEN DefaultAglWind * 10 ELSE options.agl_wind,
     agl_temp |-> IF options.agl_temp = 0 THEN DefaultAglTemp * 10 ELSE options.agl_temp]

\* (mutant) the metadata phase does not look at the position node
MetadataDueWithoutFix(pos, should) == should

\* `pos && pos.value && shouldUpdateGPS`
MetadataDue(pos, should) == pos # None /\ should

\* reportToWindy(options, force) up to its first await; sensors are the
\* values the data tree holds for the sensor paths at that moment.  The
\* function is async: an exception of getStationData rejects the promise it
\* returns, which the timer callback drops.  Before the PUT it writes the
\* distance ('Movement Guard') and the payload to the debug log, before the
\* GET the snapshot.
reportToWindy(options, force, sensors) ==
    IF getStationDataThrows(sensors)
    THEN /\ cycles' = cycles
         /\ status' = status
         /\ logged' = <<>>
    ELSE \E weather \in {GapCloser(getStationData(sensors), peakGust)}, pos \in {bus.pos} :
         \E due \in {MetadataDue(pos, shouldUpdateGPS(options, force))} :
         \E rq \in {RequestsAtStart(due, NonEmpty(weather))},
            payload \in {IF due /\ pos # None
                         THEN Some(metadataPayload(options, Val(pos), sensors))
                         ELSE None} :
             IF rq = {}
             THEN /\ cycles' = cycles
                  /\ status' = StatusMsg("Waiting for sensor data", 0,
                                         Delta(currentDistance), 0)
                  /\ logged' = <<>>
             ELSE /\ logged' =
                       (IF payload # None
                        THEN <<[level |-> "debug",
                                text  |-> <<Text("Movement Guard: "),
                                            Num(Delta(currentDistance)),
                                            Text("m from baseline position")>>],
                               [level |-> "debug",
                                text  |-> <<Text("Windy Metadata Submission (PUT): ")>> \o
                                          stringifyPayload(Val(payload))]>>
                        ELSE <<>>) \o
                       (IF "GET" \in rq THEN <<observationLog(options, weather)>> ELSE <<>>)
                  /\ cycles' = Append(cycles,
                                   [requests |-> rq, weather |-> weather, pos |-> pos,
                                    payload |-> payload,
                                    sentAt |-> now,
                                    auth |-> IF "PUT" \in rq THEN metadataAuth(options)
                                                             ELSE observationAuth(options),
                                    meta |-> IF due THEN "pending" ELSE "skipped"])
                  /\ status' = status

\* (mutant) the commit moves the baseline and keeps the old scaling factor
CommitMovementKeepKx(m, p) ==
    [lastSentPos |-> p, kx |-> m.kx, currentDistance |-> Zero]

\* Movement state after the baseline commit of a successful PUT
CommitMovement(m, p) ==
    [lastSentPos |-> p, kx |-> Cos(p.lat), currentDistance |-> Zero]

\* The PUT of cycle i resolves: baseline commit, then STEP 2.  The commit
\* reads pos.value after the await: the node read at the start of the cycle
\* is either a detached copy (the position sent) or the live node of the data
\* tree (the latest position, None when the position has lost its value in
\* the meantime).  When the value is null by then, the read throws inside the
\* try and the catch reports a failed update ('N/A').
MetadataSuccess(i) ==
    /\ ~exited
    /\ i \in DOMAIN cycles
    /\ "PUT" \in cycles[i].requests
    /\ \E t \in {cycles[i].pos, bus.pos} :
          IF t = None
          THEN /\ UNCHANGED <<lastSentPos, kx, currentDistance>>
               /\ ObservationPhase([cycles[i] EXCEPT !.meta = "ok"], i,
                                   StatusMsg("Metadata update failed", 0, 0, 0),
                                   currentDistance,
                                   <<[level |-> "error",
                                      text  |-> <<Text("Windy Metadata Error ("), Text("N/A"),
                                                  Text("): "), Text("err.message")>>]>>)
          ELSE \E m \in {CommitMovement([lastSentPos |-> lastSentPos, kx |-> kx,
                                         currentDistance |-> currentDistance], Val(t))} :
                   /\ lastSentPos' = m.lastSentPos
                   /\ kx' = m.kx
                   /\ currentDistance' = m.currentDistance
                   /\ ObservationPhase([cycles[i] EXCEPT !.meta = "ok"], i, status,
                                       m.currentDistance,
                                       <<[level |-> "debug",
                                          text  |-> <<Text("Station metadata updated successfully")>>]>>)
    /\ UNCHANGED <<lastReportString, leaked, exited, cfg, now, running, subscriptions, timers, timerLive, statusTimer,
                   nextRunTime, peakGust, bus, file>>

\* The PUT of cycle i is rejected (HTTP error, network error or timeout)
MetadataFailure(i, code) ==
    /\ ~exited
    /\ i \in DOMAIN cycles
    /\ "PUT" \in cycles[i].requests
    /\ ObservationPhase([cycles[i] EXCEPT !.meta = "failed"], i,
                        StatusMsg("Metadata update failed", code, 0, 0), currentDistance,
                        <<[level |-> "error",
                           text  |-> IF code = 0
                                     THEN <<Text("Windy Metadata Error ("), Text("N/A"),
                                            Text("): "), Text("err.message")>>
                                     ELSE <<Text("Windy Metadata Error ("), Num(code),
                                            Text("): "), Text("err.response.data")>>]>>)
    /\ UNCHANGED <<lastReportString, leaked, exited, cfg, now, running, subscriptions, timers, timerLive, statusTimer,
                   lastSentPos, currentDistance, nextRunTime, kx,
                   peakGust, bus, file>>

\* (mutant) the peak is reset whatever the answer
PeakAfterObservationAlways(succeeded, peak) == 0

\* peakGust after the try/catch of the observation request
PeakAfterObservation(succeeded, peak) == IF succeeded THEN 0 ELSE peak

\* The GET of cycle i resolves.  `[${sensorFlags}] at ${time}`: the text of a
\* report is not told apart from that of another, the program only tests
\* whether there is one
ObservationSuccess(i) ==
    /\ ~exited
    /\ i \in DOMAIN cycles
    /\ "GET" \in cycles[i].requests
    /\ lastReportString' = "[sensorFlags] at time"
    /\ status' = StatusReport("Reported", Delta(currentDistance), lastReportString')
    /\ peakGust' = PeakAfterObservation(TRUE, peakGust)
    /\ cycles' = RemoveAt(cycles, i)
    /\ logged' = <<>>
    /\ UNCHANGED <<leaked, exited, cfg, now, running, subscriptions, timers, timerLive, statusTimer,
                   lastSentPos, currentDistance, nextRunTime, kx, bus, file>>

\* (mutant) a rejected GET is sent again at once
ObservationFailureRetry(i, code, retry) ==
    /\ ~exited
    /\ i \in DOMAIN cycles
    /\ "GET" \in cycles[i].requests
    /\ status' = StatusMsg("Observation failed", code, 0, retry)
    /\ peakGust' = peakGust
    /\ cycles' = [cycles EXCEPT ![i].sentAt = now]
    /\ logged' = <<[level |-> "error",
                     text  |-> IF code = 0
                               THEN <<Text("Windy Observation Error:"), Text("err.message")>>
                               ELSE <<Text("Windy Observation Error:"), Text("Status "),
                                      Num(code), Text(": "), Text("err.response.data"),
                                      Num(retry)>>]>>
    /\ UNCHANGED <<lastReportString, leaked, exited, cfg, now, running, subscriptions, timers, timerLive, statusTimer,
                   lastSentPos, currentDistance, nextRunTime, kx, bus, file>>

\* The GET of cycle i is rejected; a 429 body carries retry_after
ObservationFailure(i, code, retry) ==
    /\ ~exited
    /\ i \in DOMAIN cycles
    /\ "GET" \in cycles[i].requests
    /\ status' = StatusMsg("Observation failed", code, 0, retry)
    /\ peakGust' = PeakAfterObservation(FALSE, peakGust)
    /\ cycles' = RemoveAt(cycles, i)
    /\ logged' = <<[level |-> "error",
                     text  |-> IF code = 0
                               THEN <<Text("Windy Observation Error:"), Text("err.message")>>
                               ELSE <<Text("Windy Observation Error:"), Text("Status "),
                                      Num(code), Text(": "), Text("err.response.data"),
                                      Num(retry)>>]>>
    /\ UNCHANGED <<lastReportString, leaked, exited, cfg, now, running, subscriptions, timers, timerLive, statusTimer,
                   lastSentPos, currentDistance, nextRunTime, kx, bus, file>>

-----------------------------------------------------------------------------
(* Scheduler *)

\* (mutant) the interval is counted from the end of the network calls
scheduleNextAfterTimeout(options, rest) ==
    /\ nextRunTime' = now + TimeoutMs + IntervalMs(options)
    /\ statusTimer' = "Next report in"
    /\ timers' = Append(rest, [at |-> now + TimeoutMs + IntervalMs(options), kind |-> "next"])
    /\ timerLive' = TRUE

\* scheduleNext(options): nextRunTime, heartbeat and the next timeout.
\* rest is the pending timeouts without the one whose callback is running.
scheduleNext(options, rest) ==
    /\ nextRunTime' = now + IntervalMs(options)
    /\ statusTimer' = "Next report in"
    /\ timers' = Append(rest, [at |-> now + IntervalMs(options), kind |-> "next"])
    /\ timerLive' = TRUE

\* The promise of reportToWindy is dropped by the timer callbacks.  When it
\* is rejected the rejection is unhandled: the host ends the process (the
\* default of Node.js 15 and later) or goes on (with a handler, or with
\* --unhandled-rejections=warn).  The set of values of `exited` afterwards.
UnhandledRejection(rejected) == IF rejected THEN BOOLEAN ELSE {FALSE}

\* (mutant) a timeout that expires while a cycle is in flight waits for it
TimerFireSingleFlight(i, sensors) ==
    /\ ~exited
    /\ i \in DOMAIN timers
    /\ timers[i].at <= now
    /\ cycles = <<>>
    /\ reportToWindy(cfg, timers[i].kind = "warmup" /\ cfg.forceUpdate, sensors)
    /\ scheduleNext(cfg, RemoveAt(timers, i))
    /\ exited' \in UnhandledRejection(getStationDataThrows(sensors))
    /\ UNCHANGED <<lastReportString, leaked, cfg, now, running, subscriptions, lastSentPos, currentDistance, kx,
                   peakGust, bus, file>>

\* A pending timeout expires: the callbacks of plugin.start and scheduleNext.
\* Only the warm-up callback passes !!options.forceUpdate.  The callback
\* clears the interval `statusTimer` refers to, and scheduleNext replaces it.
TimerFire(i, sensors) ==
    /\ ~exited
    /\ i \in DOMAIN timers
    /\ timers[i].at <= now
    /\ Len(cycles) < MaxCycles
    /\ reportToWindy(cfg, timers[i].kind = "warmup" /\ cfg.forceUpdate, sensors)
    /\ scheduleNext(cfg, RemoveAt(timers, i))
    /\ exited' \in UnhandledRejection(getStationDataThrows(sensors))
    /\ UNCHANGED <<lastReportString, leaked, cfg, now, running, subscriptions, lastSentPos, currentDistance, kx,
                   peakGust, bus, file>>

\* state.json after a write that failed once the file was open: the file is
\* there and holds no JSON text
Truncated == <<0, 0>>

\* JSON.parse(fs.readFileSync(stateFile)) returns a record
Parses(f) == Len(f) = 1

\* (mutant) the saved distance is not read back
LoadedStateFresh(saved) ==
    CHOOSE r \in
        {[lastSentPos     |-> [lat |-> lat, lon |-> MicroDegrees(saved.lastSentPos.lon)],
          currentDistance |-> Zero,
          nextRunTime     |-> saved.nextRunTime,
          kx              |-> IF lat # 0 THEN Cos(lat) ELSE kx]
         : lat \in {MicroDegrees(saved.lastSentPos.lat)}} : TRUE

\* The state plugin.start takes from the record JSON.parse returns for the
\* text of state.json: the numbers its decimals read as.  `|| { lat: 0,
\* lon: 0 }` and `|| 0` stand in for a member the record lacks and map 0 to
\* itself; kx is computed from a baseline whose latitude is not 0.
LoadedState(saved) ==
    CHOOSE r \in
        {[lastSentPos     |-> [lat |-> lat, lon |-> MicroDegrees(saved.lastSentPos.lon)],
          currentDistance |-> StringToNumber(saved.currentDistance),
          nextRunTime     |-> saved.nextRunTime,
          kx              |-> IF lat # 0 THEN Cos(lat) ELSE kx]
         : lat \in {MicroDegrees(saved.lastSentPos.lat)}} : TRUE

\* (mutant) every start warms up
FirstTimerWarmup(remainingTime) == [at |-> now + WarmupMs, kind |-> "warmup"]

\* The timeout armed by plugin.start: warm-up when the run time has passed,
\* else the remaining time
FirstTimer(remainingTime) ==
    IF remainingTime <= 0
    THEN [at |-> now + WarmupMs, kind |-> "warmup"]
    ELSE [at |-> now + remainingTime, kind |-> "resume"]

\* plugin.start(settings): subscribe, load state.json, arm the first timeout.
\* Without a file nothing is assigned; JSON.parse of a file that was cut off
\* throws before anything is assigned ('Starting with fresh internal state')
\* and the closure variables keep their values.  statusTimer is assigned
\* without clearInterval: an interval that is still running keeps running
\* without a handle.
pluginStart ==
    /\ ~exited
    /\ subscriptions < MaxStarts
    /\ running' = TRUE
    /\ leaked' = leaked \cup ({statusTimer} \ {"none"})
    /\ subscriptions' = subscriptions + 1
    /\ \E mem \in {IF Parses(file)
                   THEN LoadedState(Val(file))
                   ELSE [lastSentPos |-> lastSentPos, currentDistance |-> currentDistance,
                         nextRunTime |-> nextRunTime, kx |-> kx]} :
       LET remainingTime == mem.nextRunTime - now
       IN  /\ lastSentPos' = mem.lastSentPos
           /\ currentDistance' = mem.currentDistance
           /\ kx' = mem.kx
           /\ timers' = Append(timers, FirstTimer(remainingTime))
           /\ IF remainingTime <= 0
              THEN /\ nextRunTime' = now + WarmupMs
                   /\ statusTimer' = "Warming up"
              ELSE /\ nextRunTime' = mem.nextRunTime
                   /\ statusTimer' = "Resuming"
    /\ timerLive' = TRUE
    /\ logged' = IF file # None /\ ~Parses(file)
                 THEN <<[level |-> "debug",
                         text  |-> <<Text("Starting with fresh internal state.")>>]>>
                 ELSE <<>>
    /\ UNCHANGED <<lastReportString, exited, cfg, now, peakGust, bus, file, cycles, status>>

\* The server starts a stopped plugin
Start == ~running /\ pluginStart

\* plugin.start called on a running plugin: nothing in the code prevents it
StartAgain == running /\ pluginStart

\* (mutant) the saved record has no distance
StateRecordNoDistance(pos, dist, next) ==
    [lastSentPos     |-> [lat |-> CoordinateToString(pos.lat),
                          lon |-> CoordinateToString(pos.lon)],
     currentDistance |-> NumberToString(Zero),
     nextRunTime     |-> next]

\* JSON.stringify({ lastSentPos, currentDistance, nextRunTime }): the text
\* of state.json, each double as its decimal.  nextRunTime is a whole number
\* of milliseconds below 2^53, which is written with all its digits and read
\* back as it is.
StateRecord(pos, dist, next) ==
    [lastSentPos     |-> [lat |-> CoordinateToString(pos.lat),
                          lon |-> CoordinateToString(pos.lon)],
     currentDistance |-> NumberToString(dist),
     nextRunTime     |-> next]

\* (mutant) stop leaves the timeout pending
clearTimeoutNoop(ts, live) == ts

\* `if (timer) clearTimeout(timer)`: ts are the pending timeouts, the last
\* one being `timer` when live
clearTimeout(ts, live) == IF live THEN SubSeq(ts, 1, Len(ts) - 1) ELSE ts

\* The outcomes of fs.writeFileSync(stateFile, ...) and of the calls before
\* it: the record is written; the call fails before the file is opened (no
\* directory, no permission) and the file is as it was; or the file is opened,
\* which empties it, and the write fails (disk full, size limit)
WriteOutcomes == {"written", "failed", "truncated"}

\* plugin.stop(); outcome is that of the write of state.json (a failure is
\* caught and logged).  Nothing in the code keeps stop from being called on a
\* stopped plugin.
Stop(outcome) ==
    /\ ~exited
    /\ running' = FALSE
    /\ timers' = clearTimeout(timers, timerLive)
    /\ timerLive' = FALSE
    /\ statusTimer' = "none"
    /\ file' = IF outcome = "written"
               THEN Some(StateRecord(lastSentPos, currentDistance, nextRunTime))
               ELSE IF outcome = "truncated" THEN Truncated
               ELSE file
    /\ status' = StatusMsg("Stopped", 0, 0, 0)
    /\ logged' = IF outcome = "written" THEN <<>>
                 ELSE <<[level |-> "error",
                         text  |-> <<Text("Failed to save state file:"), Text("e.message")>>]>>
    /\ UNCHANGED <<lastReportString, leaked, exited, cfg, now, subscriptions, lastSentPos, currentDistance, nextRunTime, kx,
                   peakGust, bus, cycles>>

\* updateHeartbeatStatus(msgPrefix)
updateHeartbeatStatus(msgPrefix) ==
    IF nextRunTime - now > 0
    THEN status' = StatusReport(msgPrefix, Delta(currentDistance), lastReportString)
    ELSE status' = status

\* A heartbeat interval fires, every second while it runs
Heartbeat ==
    /\ ~exited
    /\ logged' = <<>>
    /\ \E msgPrefix \in ({statusTimer} \ {"none"}) \cup leaked : updateHeartbeatStatus(msgPrefix)
    /\ UNCHANGED <<lastReportString, leaked, exited, cfg, now, running, subscriptions, timers, timerLive, statusTimer,
                   lastSentPos, currentDistance, nextRunTime, kx,
                   peakGust, bus, file, cycles>>

-----------------------------------------------------------------------------
(* Sensor bus: a delta changes the data tree and is delivered to the        *)
(* subscription callback of plugin.start, which is never unsubscribed.      *)

\* navigation.position takes the value p; every registered subscription
\* calls handlePositionUpdate(p)
PositionDelta(p) ==
    /\ ~exited
    /\ logged' = <<>>
    /\ bus' = [bus EXCEPT !.pos = Some(p)]
    /\ UNCHANGED <<lastReportString, leaked, exited, cfg, now, running, subscriptions, timers, timerLive, statusTimer,
                   nextRunTime, peakGust, file, cycles, status>>
    /\ LET m0 == [lastSentPos |-> lastSentPos, kx |-> kx,
                  currentDistance |-> currentDistance]
       IN  \E m1 \in {IF subscriptions >= 1 THEN handlePositionUpdate(m0, p) ELSE m0} :
           \E m2 \in {IF subscriptions >= 2 THEN handlePositionUpdate(m1, p) ELSE m1} :
               /\ lastSentPos' = m2.lastSentPos
               /\ kx' = m2.kx
               /\ currentDistance' = m2.currentDistance

\* navigation.position loses its value: `v.value` is falsy, no update
PositionLost ==
    /\ ~exited
    /\ logged' = <<>>
    /\ bus' = [bus EXCEPT !.pos = None]
    /\ UNCHANGED <<lastReportString, leaked, exited, cfg, now, running, subscriptions, timers, timerLive, statusTimer,
                   lastSentPos, currentDistance, nextRunTime, kx,
                   peakGust, file, cycles, status>>

\* (mutant) the peak follows the latest sample
samplePeakLatest(peak, node) == IF HasValue(node) THEN Val(node) ELSE peak

\* `if (v.value !== null) { if (v.value > peakGust) peakGust = v.value; }`
samplePeak(peak, node) ==
    IF HasValue(node) /\ Val(node) > peak THEN Val(node) ELSE peak

\* the wind speed path delivers a delta whose value is null
WindNull ==
    /\ ~exited
    /\ logged' = <<>>
    /\ subscriptions >= 1
    /\ peakGust' = samplePeak(peakGust, NullNode)
    /\ UNCHANGED <<lastReportString, leaked, exited, cfg, now, running, subscriptions, timers, timerLive, statusTimer,
                   lastSentPos, currentDistance, nextRunTime, kx,
                   bus, file, cycles, status>>

\* the wind speed path delivers the sample v: peak tracking
WindDelta(v) ==
    /\ ~exited
    /\ logged' = <<>>
    /\ subscriptions >= 1
    /\ peakGust' = samplePeak(peakGust, Some(v))
    /\ UNCHANGED <<lastReportString, leaked, exited, cfg, now, running, subscriptions, timers, timerLive, statusTimer,
                   lastSentPos, currentDistance, nextRunTime, kx,
                   bus, file, cycles, status>>

-----------------------------------------------------------------------------
(* Clock: a timeout fires when it is due and every request is answered (or  *)
(* times out) within TimeoutMs, so time never passes a deadline.  It moves   *)
(* on to the next deadline, or by TickMs when nothing is pending.            *)

Deadlines ==
    {timers[i].at : i \in DOMAIN timers} \cup
    {cycles[i].sentAt + TimeoutMs : i \in DOMAIN cycles}

\* The next deadline; with nothing pending, the persisted run time when it
\* lies ahead (the plugin is stopped), else one step of TickMs.
NextInstant ==
    IF Deadlines # {} THEN CHOOSE d \in Deadlines : \A e \in Deadlines : d <= e
    ELSE IF nextRunTime > now THEN nextRunTime
    ELSE now + TickMs

\* The clock of the model starts with the first plugin.start.
Tick ==
    /\ ~exited
    /\ logged' = <<>>
    /\ subscriptions >= 1
    /\ \A d \in Deadlines : d > now
    /\ NextInstant <= StartTime + MaxTicks * TickMs
    /\ now' = NextInstant
    /\ UNCHANGED <<lastReportString, leaked, exited, cfg, running, subscriptions, timers, timerLive, statusTimer,
                   lastSentPos, currentDistance, nextRunTime, kx,
                   peakGust, bus, file, cycles, status>>

-----------------------------------------------------------------------------
(* Specifications.  The engine is one state machine; its reachable states   *)
(* are explored in two parts that share every action: one life of the       *)
(* plugin with the full sensor input, and repeated stop/start with a calm   *)
(* wind sensor.                                                              *)

Next ==
    \/ Start
    \/ StartAgain
    \/ \E outcome \in WriteOutcomes : Stop(outcome)
    \/ \E i \in DOMAIN timers, sensors \in SensorReadings : TimerFire(i, sensors)
    \/ Heartbeat
    \/ \E i \in DOMAIN cycles : MetadataSuccess(i)
    \/ \E i \in DOMAIN cycles, code \in MetaCodes : MetadataFailure(i, code)
    \/ \E i \in DOMAIN cycles : ObservationSuccess(i)
    \/ \E i \in DOMAIN cycles, code \in ObsCodes : ObservationFailure(i, code, 0)
    \/ \E i \in DOMAIN cycles, r \in RetryAfters : ObservationFailure(i, 429, r)
    \/ \E p \in Positions : PositionDelta(p)
    \/ PositionLost
    \/ \E v \in WindVals : WindDelta(v)
    \/ WindNull
    \/ Tick

Spec == Init /\ [][Next]_vars

\* One life of the plugin: start, reports, every sensor input, no stop
NextCycle ==
    \/ Start
    \/ \E i \in DOMAIN timers, sensors \in SensorReadings : TimerFire(i, sensors)
    \/ Heartbeat
    \/ \E i \in DOMAIN cycles : MetadataSuccess(i)
    \/ \E i \in DOMAIN cycles, code \in MetaCodes : MetadataFailure(i, code)
    \/ \E i \in DOMAIN cycles : ObservationSuccess(i)
    \/ \E i \in DOMAIN cycles, code \in ObsCodes : ObservationFailure(i, code, 0)
    \/ \E i \in DOMAIN cycles, r \in RetryAfters : ObservationFailure(i, 429, r)
    \/ \E p \in Positions : PositionDelta(p)
    \/ PositionLost
    \/ \E v \in WindVals : WindDelta(v)
    \/ WindNull
    \/ Tick

SpecCycle == Init /\ [][NextCycle]_vars

\* Stop and start at any moment, position input, no wind samples; the server
\* stops a running plugin and the state file is written
NextLife ==
    \/ Start
    \/ running /\ Stop("written")
    \/ \E i \in DOMAIN timers, sensors \in CalmReadings : TimerFire(i, sensors)
    \/ Heartbeat
    \/ \E i \in DOMAIN cycles : MetadataSuccess(i)
    \/ \E i \in DOMAIN cycles, code \in MetaCodes : MetadataFailure(i, code)
    \/ \E i \in DOMAIN cycles : ObservationSuccess(i)
    \/ \E i \in DOMAIN cycles, code \in ObsCodes : ObservationFailure(i, code, 0)
    \/ \E i \in DOMAIN cycles, r \in RetryAfters : ObservationFailure(i, 429, r)
    \/ \E p \in Positions : PositionDelta(p)
    \/ PositionLost
    \/ Tick

InitLife == Init /\ cfg.minMove # 0

SpecLife == InitLife /\ [][NextLife]_vars

\* The lifecycle calls in any order, the write of state.json failing or not;
\* position input, a calm wind sensor, requests that fail by timeout
NextStop ==
    \/ Start
    \/ StartAgain
    \/ \E outcome \in WriteOutcomes : Stop(outcome)
    \/ \E i \in DOMAIN timers, sensors \in CalmReadings : TimerFire(i, sensors)
    \/ Heartbeat
    \/ \E i \in DOMAIN cycles : MetadataSuccess(i)
    \/ \E i \in DOMAIN cycles : MetadataFailure(i, 0)
    \/ \E i \in DOMAIN cycles : ObservationSuccess(i)
    \/ \E i \in DOMAIN cycles : ObservationFailure(i, 0, 0)
    \/ \E p \in Positions : PositionDelta(p)
    \/ Tick

InitStop == Init /\ cfg.minMove # 0 /\ ~cfg.forceUpdate

SpecStop == InitStop /\ [][NextStop]_vars

\* The data path: every kind of sensor node and configured heights, forced
\* first cycle, the heartbeat of the status line, requests that are answered
\* or fail with an HTTP status or by timeout
NextData ==
    \/ Start
    \/ \E i \in DOMAIN timers, sensors \in DataReadings : TimerFire(i, sensors)
    \/ Heartbeat
    \/ \E i \in DOMAIN cycles : MetadataSuccess(i)
    \/ \E i \in DOMAIN cycles, code \in MetaCodes : MetadataFailure(i, code)
    \/ \E i \in DOMAIN cycles : ObservationSuccess(i)
    \/ \E i \in DOMAIN cycles, code \in ObsCodes : ObservationFailure(i, code, 0)
    \/ \E i \in DOMAIN cycles, r \in RetryAfters : ObservationFailure(i, 429, r)
    \/ \E p \in DataPositions : PositionDelta(p)
    \/ Tick

InitData ==
    /\ cfg \in [forceUpdate : {TRUE}, minMove : {DefaultMinMove}, interval : Intervals,
                agl_wind : HeightVals, agl_temp : HeightVals,
                stationId : StationIds, stationPassword : StationPasswords,
                apiKey : ApiKeys]
    /\ now = StartTime
    /\ running = FALSE
    /\ subscriptions = 0
    /\ timers = <<>>
    /\ timerLive = FALSE
    /\ statusTimer = "none"
    /\ lastSentPos = UnsetPos
    /\ currentDistance = Zero
    /\ nextRunTime = 0
    /\ kx = One
    /\ peakGust = 0
    /\ bus = [pos |-> None]
    /\ file = None
    /\ cycles = <<>>
    /\ status = Blank
    /\ lastReportString = ""
    /\ logged = <<>>
    /\ leaked = {}
    /\ exited = FALSE

SpecData == InitData /\ [][NextData]_vars

\* The movement guard in one life of the plugin: position samples that
\* include a nearby point and (0,0), a calm wind sensor, the heartbeat of the
\* status line, requests that fail by timeout
NextGuard ==
    \/ Start
    \/ \E i \in DOMAIN timers, sensors \in CalmReadings : TimerFire(i, sensors)
    \/ Heartbeat
    \/ \E i \in DOMAIN cycles : MetadataSuccess(i)
    \/ \E i \in DOMAIN cycles : MetadataFailure(i, 0)
    \/ \E i \in DOMAIN cycles : ObservationSuccess(i)
    \/ \E i \in DOMAIN cycles : ObservationFailure(i, 0, 0)
    \/ \E p \in GuardPositions : PositionDelta(p)
    \/ Tick

InitGuard == Init /\ cfg.minMove # 0

SpecGuard == InitGuard /\ [][NextGuard]_vars

\* The scheduler in one life of the plugin with every interval setting, wind
\* samples and position input, requests that fail by timeout
NextInterval ==
    \/ Start
    \/ \E i \in DOMAIN timers, sensors \in IntervalReadings : TimerFire(i, sensors)
    \/ Heartbeat
    \/ \E i \in DOMAIN cycles : MetadataSuccess(i)
    \/ \E i \in DOMAIN cycles : MetadataFailure(i, 0)
    \/ \E i \in DOMAIN cycles : ObservationSuccess(i)
    \/ \E i \in DOMAIN cycles : ObservationFailure(i, 0, 0)
    \/ \E p \in Positions : PositionDelta(p)
    \/ WindDelta(1230)
    \/ Tick

InitInterval ==
    /\ cfg \in [forceUpdate : BOOLEAN, minMove : {DefaultMinMove}, interval : {0, 1, DefaultInterval},
                agl_wind : {0}, agl_temp : {0},
                stationId : StationIds, stationPassword : StationPasswords,
                apiKey : ApiKeys]
    /\ now = StartTime
    /\ running = FALSE
    /\ subscriptions = 0
    /\ timers = <<>>
    /\ timerLive = FALSE
    /\ statusTimer = "none"
    /\ lastSentPos = UnsetPos
    /\ currentDistance = Zero
    /\ nextRunTime = 0
    /\ kx = One
    /\ peakGust = 0
    /\ bus = [pos |-> None]
    /\ file = None
    /\ cycles = <<>>
    /\ status = Blank
    /\ lastReportString = ""
    /\ logged = <<>>
    /\ leaked = {}
    /\ exited = FALSE

SpecInterval == InitInterval /\ [][NextInterval]_vars

\* The same with the scheduling of the runtime: time passes, a timeout that
\* is due fires, and every request is answered or times out
Answer ==
    \E i \in DOMAIN cycles :
        \/ MetadataSuccess(i)
        \/ MetadataFailure(i, 0)
        \/ ObservationSuccess(i)
        \/ ObservationFailure(i, 0, 0)

SpecIntervalFair ==
    /\ SpecInterval
    /\ WF_vars(Tick)
    /\ WF_vars(\E i \in DOMAIN timers, sensors \in IntervalReadings : TimerFire(i, sensors))
    /\ WF_vars(Answer)

-----------------------------------------------------------------------------
(* Properties of the two-phase submission *)

\* The step starts a cycle whose first request is the metadata PUT
PutIssued ==
    /\ Len(cycles') = Len(cycles) + 1
    /\ "PUT" \in cycles'[Len(cycles')].requests

\* The latest position sample, when the data tree holds one
LatestPosition == IF bus.pos = None THEN {} ELSE {Val(bus.pos)}

\* C1: a cycle never has its PUT and its GET outstanding together; while the
\* metadata phase of a due cycle is pending only the PUT is outstanding, and
\* the GET is outstanding only once the PUT has been answered (or skipped).
C1_PutBeforeGet ==
    \A i \in DOMAIN cycles :
        LET c == cycles[i]
        IN  /\ Cardinality(c.requests) = 1
            /\ c.meta = "pending" => c.requests = {"PUT"}
            /\ "GET" \in c.requests => c.meta \in {"skipped", "ok", "failed"}

\* C1 witness: the PUT of a due cycle has been answered and its GET is out
C1_Witness ==
    \E i \in DOMAIN cycles :
        cycles[i].meta \in {"ok", "failed"} /\ cycles[i].requests = {"GET"}

\* C2: when the PUT of a cycle fails, whatever the error, and the snapshot has
\* a key, the same step issues the GET of that cycle; a GET that follows a
\* failed PUT succeeds like any other: peak reset and success status.
C2_ObservationAfterMetadataFailure ==
    [][/\ \A i \in DOMAIN cycles, code \in MetaCodes :
              (MetadataFailure(i, code) /\ NonEmpty(cycles[i].weather)) =>
                  /\ i \in DOMAIN cycles'
                  /\ cycles'[i].requests = {"GET"}
                  /\ cycles'[i].meta = "failed"
                  /\ cycles'[i].weather = cycles[i].weather
       /\ \A i \in DOMAIN cycles :
              (cycles[i].meta = "failed" /\ ObservationSuccess(i)) =>
                  peakGust' = 0 /\ status'.kind = "Reported"]_vars

\* C2 witness: a GET is outstanding after a failed PUT and can be answered
\* with success
C2_Witness ==
    \E i \in DOMAIN cycles :
        /\ cycles[i].meta = "failed"
        /\ cycles[i].requests = {"GET"}
        /\ ENABLED ObservationSuccess(i)

\* C3 (as claimed): a 429 answer with retry_after r moves the next run to
\* now + r.
C3_RateLimitReschedule ==
    [][\A i \in DOMAIN cycles, r \in RetryAfters :
           ObservationFailure(i, 429, r) => nextRunTime' = now + r]_vars

\* C4: peakGust goes down only in the step in which an observation succeeds,
\* and then to 0; a failed observation, a cycle ended without a request and
\* both outcomes of the metadata phase leave it as it is.
C4_PeakResetOnlyOnSuccess ==
    [][/\ peakGust' < peakGust =>
              peakGust' = 0 /\ \E i \in DOMAIN cycles : ObservationSuccess(i)
       /\ \A i \in DOMAIN cycles :
              \/ MetadataSuccess(i)
              \/ \E code \in MetaCodes : MetadataFailure(i, code)
              \/ \E code \in ObsCodes : ObservationFailure(i, code, 0)
              \/ \E r \in RetryAfters : ObservationFailure(i, 429, r)
              => peakGust' = peakGust
       /\ (status'.kind = "Waiting for sensor data" /\ status' # status) =>
              peakGust' = peakGust]_vars

\* C4 witness: an observation has failed and the peak is still there
C4_Witness == status.kind = "Observation failed" /\ peakGust > 0

\* C5 (as claimed): the peak that a successful observation resets is covered
\* by the gust that observation carried.
C5_NoSpikeLost ==
    [][\A i \in DOMAIN cycles :
           ObservationSuccess(i) =>
               \/ peakGust = 0
               \/ /\ cycles[i].weather.gust # None
                  /\ Val(cycles[i].weather.gust) >= ToFixed1(peakGust)]_vars

\* The larger of the peak and the gust reading, as submitted
LargerGust(reading, peak) ==
    IF reading = None
    THEN IF peak > 0 THEN Some(ToFixed1(peak)) ELSE None
    ELSE IF peak > Val(reading) THEN Some(ToFixed1(peak)) ELSE Some(ToFixed1(Val(reading)))

\* C6: the gust of a cycle's snapshot is the larger of the tracked peak and
\* the gust reading taken at report time, and a successful submission leaves
\* the peak at 0.
C6_SubmittedGust ==
    [][/\ \A i \in DOMAIN timers, sensors \in SensorReadings :
              (TimerFire(i, sensors) /\ Len(cycles') > Len(cycles)) =>
                  cycles'[Len(cycles')].weather.gust = LargerGust(sensors.gust, peakGust)
       /\ \A i \in DOMAIN cycles : ObservationSuccess(i) => peakGust' = 0]_vars

\* C6 witness: a GET carrying the peak as its gust is outstanding
C6_Witness ==
    \E i \in DOMAIN cycles :
        /\ cycles[i].requests = {"GET"}
        /\ peakGust > 800
        /\ cycles[i].weather.gust = Some(ToFixed1(peakGust))

-----------------------------------------------------------------------------
(* Properties of the movement guard *)

\* C7 (as claimed): every successful metadata PUT sets currentDistance to 0.
\* (The other half of the claim, that nothing else takes it from a positive
\* value to 0, does not hold either: a sample at the baseline does.)
C7_DistanceResetOnSync ==
    [][\A i \in DOMAIN cycles : MetadataSuccess(i) => currentDistance' = Zero]_vars

\* C8 (as claimed): a successful PUT makes the baseline the latest known
\* position or the position just sent, with distance 0; a failed PUT leaves
\* baseline and distance unchanged.
C8_BaselineOnSync ==
    [][/\ \A i \in DOMAIN cycles :
              MetadataSuccess(i) =>
                  /\ lastSentPos' \in {Val(cycles[i].pos)} \cup LatestPosition
                  /\ currentDistance' = Zero
       /\ \A i \in DOMAIN cycles, code \in MetaCodes :
              MetadataFailure(i, code) => UNCHANGED <<lastSentPos, currentDistance>>]_vars

\* C9 (as claimed): for every threshold, 0 included, a cycle issues the PUT
\* exactly when a position is available and the distance has reached the
\* configured threshold or the cycle is forced.
C9_DueRule ==
    [][\A i \in DOMAIN timers, sensors \in SensorReadings :
           TimerFire(i, sensors) =>
               (PutIssued <=>
                   /\ bus.pos # None
                   /\ \/ timers[i].kind = "warmup" /\ cfg.forceUpdate
                      \/ FGeq(currentDistance, FFromInt(cfg.minMove)))]_vars

\* C10 (as claimed): with forceUpdate set every cycle that has a position
\* issues the PUT.
C10_ForceEveryCycle ==
    [][\A i \in DOMAIN timers, sensors \in SensorReadings :
           (TimerFire(i, sensors) /\ cfg.forceUpdate /\ bus.pos # None) =>
               PutIssued]_vars

-----------------------------------------------------------------------------
(* Properties of the scheduler and of the state file *)

\* The text of the movement and scheduler state in memory, as stop would
\* save it
MemoryRecord ==
    [lastSentPos     |-> [lat |-> CoordinateToString(lastSentPos.lat),
                          lon |-> CoordinateToString(lastSentPos.lon)],
     currentDistance |-> NumberToString(currentDistance),
     nextRunTime     |-> nextRunTime]

\* The state a call of stop leaves when nothing else has happened since
JustStopped ==
    /\ ~running
    /\ ~timerLive
    /\ statusTimer = "none"
    /\ status = StatusMsg("Stopped", 0, 0, 0)

\* C11 (as claimed): a start that finds no state file it can read, or a saved
\* run time that is unset or not in the future, arms the 15 s warm-up timeout.
C11_WarmupOnStart ==
    [][(Start /\ (~Parses(file) \/ Val(file).nextRunTime <= now)) =>
           /\ timers'[Len(timers')] = [at |-> now + WarmupMs, kind |-> "warmup"]
           /\ nextRunTime' = now + WarmupMs
           /\ cycles' = cycles]_vars

\* C12: a start that finds a saved run time in the future arms one timeout
\* for exactly that time, keeps nextRunTime and starts no cycle; the cycle of
\* that timeout starts at the saved run time, not before.
C12_ResumeOnStart ==
    [][/\ (Start /\ Parses(file) /\ Val(file).nextRunTime > now) =>
              /\ timers' = <<[at |-> Val(file).nextRunTime, kind |-> "resume"]>>
              /\ nextRunTime' = Val(file).nextRunTime
              /\ statusTimer' = "Resuming"
              /\ cycles' = cycles
       /\ \A i \in DOMAIN timers, sensors \in CalmReadings :
              (TimerFire(i, sensors) /\ timers[i].kind = "resume") =>
                  timers[i].at = nextRunTime /\ now >= nextRunTime]_vars

\* C12 witness: the plugin has resumed and waits for the saved run time
C12_Witness ==
    /\ running
    /\ statusTimer = "Resuming"
    /\ nextRunTime > now
    /\ timers = <<[at |-> nextRunTime, kind |-> "resume"]>>

\* C13: the step in which a timeout fires starts the cycle, sets nextRunTime
\* to the fire time plus the interval and replaces the fired timeout by one
\* for that time, while the requests of the cycle are still outstanding; the
\* timeout fires at its own deadline, so cycle starts are one interval apart.
C13_RescheduleAtFire ==
    [][\A i \in DOMAIN timers, sensors \in SensorReadings :
           TimerFire(i, sensors) =>
               /\ now = timers[i].at
               /\ nextRunTime' = now + IntervalMs(cfg)
               /\ Len(timers') = Len(timers)
               /\ timers'[Len(timers')] = [at |-> now + IntervalMs(cfg), kind |-> "next"]
               /\ \A j \in DOMAIN cycles' :
                      j > Len(cycles) => cycles'[j].requests # {}]_vars

\* C13 witness: the next timeout is armed one interval after the fire while
\* the PUT of the cycle just started is outstanding
C13_Witness ==
    /\ nextRunTime = now + IntervalMs(cfg)
    /\ timers = <<[at |-> nextRunTime, kind |-> "next"]>>
    /\ \E i \in DOMAIN cycles :
           cycles[i].meta = "pending" /\ cycles[i].sentAt = now

\* C14: stop cancels `timer` and the heartbeat, leaves the state in memory
\* as it is and sets the status, whatever becomes of the write; when the
\* write goes through the file holds exactly the state in memory, when it
\* fails the file is left as it was or left empty.
C14_StopPersists ==
    [][\A outcome \in WriteOutcomes :
           Stop(outcome) =>
               /\ ~timerLive'
               /\ Len(timers') = Len(timers) - (IF timerLive THEN 1 ELSE 0)
               /\ (Len(timers) = 1 /\ timerLive) => timers' = <<>>
               /\ statusTimer' = "none"
               /\ status'.kind = "Stopped"
               /\ UNCHANGED <<lastSentPos, currentDistance, nextRunTime>>
               /\ outcome = "written" => file' = Some(MemoryRecord)
               /\ outcome # "written" => file' \in {file, Truncated}]_vars

\* C14 witness: the plugin is stopped, no timeout is pending and the file
\* holds the state in memory, with a baseline and a distance
C14_Witness ==
    /\ JustStopped
    /\ timers = <<>>
    /\ file = Some(MemoryRecord)
    /\ FLess(Zero, currentDistance)
    /\ nextRunTime > now

\* C15: an answer to a request never touches the timeouts or nextRunTime, and
\* while the plugin is stopped no timeout is pending.
C15_NoRearmAfterStop ==
    [][/\ \/ \E i \in DOMAIN cycles : MetadataSuccess(i)
          \/ \E i \in DOMAIN cycles, code \in MetaCodes : MetadataFailure(i, code)
          \/ \E i \in DOMAIN cycles : ObservationSuccess(i)
          \/ \E i \in DOMAIN cycles, code \in ObsCodes : ObservationFailure(i, code, 0)
          \/ \E i \in DOMAIN cycles, r \in RetryAfters : ObservationFailure(i, 429, r)
          => UNCHANGED <<timers, timerLive, nextRunTime, running>>
       /\ ~running' => timers' = <<>> /\ ~timerLive']_vars

\* C15 witness: a request was answered after stop and no timeout is pending
C15_Witness ==
    /\ ~running
    /\ subscriptions >= 1
    /\ status.kind \in {"Reported", "Observation failed", "Metadata update failed"}
    /\ timers = <<>>

\* C16 (as claimed): no stop leaves a timeout armed, and a stop that follows
\* a stop changes nothing but the file, to which it does what the first stop
\* may do (the record of the state in memory, the file as it was, or an empty
\* file); when its write goes through and the file already holds the state
\* in memory, the whole state is as it was.
C16_StopIdempotent ==
    [][\A outcome \in WriteOutcomes :
           /\ Stop(outcome) => timers' = <<>>
           /\ (Stop(outcome) /\ JustStopped) =>
                  /\ UNCHANGED <<lastReportString, leaked, exited, cfg, now, running,
                                 subscriptions, timers, timerLive, statusTimer,
                                 lastSentPos, currentDistance, nextRunTime,
                                 kx, peakGust, bus, cycles, status>>
                  /\ file' \in {file, Some(MemoryRecord), Truncated}
                  /\ (outcome = "written" /\ file = Some(MemoryRecord)) => file' = file
                  /\ outcome = "failed" => file' = file]_vars

\* C17 (as claimed): a start that reads the record of the state in memory
\* leaves baseline, distance and run time as they are.
C17_StateRoundTrip ==
    [][(pluginStart /\ file = Some(MemoryRecord)) =>
           UNCHANGED <<lastSentPos, currentDistance, nextRunTime>>]_vars

\* C17 (amended): the text stop writes reads back as the baseline, the
\* distance and the run time in memory; a start that reads a record leaves
\* memory with the baseline and the distance whose text the record holds, so
\* with those in memory at the stop; and it keeps the record's run time only
\* when that lies ahead, an expired one being replaced by the warm-up
\* deadline.
C17_RoundTripUnlessExpired ==
    [][/\ Stop("written") =>
              /\ Parses(file')
              /\ MicroDegrees(Val(file').lastSentPos.lat) = lastSentPos.lat
              /\ MicroDegrees(Val(file').lastSentPos.lon) = lastSentPos.lon
              /\ StringToNumber(Val(file').currentDistance) = currentDistance
              /\ Val(file').nextRunTime = nextRunTime
       /\ pluginStart =>
              /\ Parses(file) =>
                     /\ MemoryRecord'.lastSentPos = Val(file).lastSentPos
                     /\ MemoryRecord'.currentDistance = Val(file).currentDistance
                     /\ Val(file).nextRunTime > now => nextRunTime' = Val(file).nextRunTime
                     /\ Val(file).nextRunTime <= now => nextRunTime' = now + WarmupMs
              /\ file = Some(MemoryRecord) =>
                     /\ UNCHANGED <<lastSentPos, currentDistance>>
                     /\ nextRunTime > now => nextRunTime' = nextRunTime]_vars

\* C17 witness: a start has read a record whose run time had passed: it has
\* the record's baseline and distance and a run time of its own
C17_Witness ==
    /\ running
    /\ statusTimer = "Warming up"
    /\ Parses(file)
    /\ Val(file).nextRunTime > 0
    /\ Val(file).nextRunTime < now
    /\ nextRunTime = now + WarmupMs
    /\ lastSentPos # UnsetPos
    /\ FLess(Zero, currentDistance)
    /\ Val(file).currentDistance = NumberToString(currentDistance)

\* C18 (as claimed): every successful metadata sync and every new value of
\* nextRunTime is written to the state file in the same step.
C18_WriteAtCommit ==
    [][(nextRunTime' # nextRunTime \/ \E i \in DOMAIN cycles : MetadataSuccess(i)) =>
           file' = Some(MemoryRecord')]_vars

\* C19 (as claimed): at most one timeout is pending, and exactly one while
\* the plugin is running.
C19_SingleTimer ==
    /\ Len(timers) <= 1
    /\ running => Len(timers) = 1

\* C20: a cycle that finds no position issues no PUT, forced or not, and
\* leaves baseline and distance alone; when its snapshot has a key the GET is
\* issued in the same step.
C20_NoFixSkipsMetadata ==
    [][\A i \in DOMAIN timers, sensors \in SensorReadings :
           (TimerFire(i, sensors) /\ bus.pos = None) =>
               /\ ~PutIssued
               /\ UNCHANGED <<lastSentPos, currentDistance, kx>>
               /\ IF NonEmpty(GapCloser(getStationData(sensors), peakGust))
                  THEN /\ Len(cycles') = Len(cycles) + 1
                       /\ cycles'[Len(cycles')].requests = {"GET"}
                       /\ cycles'[Len(cycles')].meta = "skipped"
                  ELSE cycles' = cycles]_vars

\* C20 witness: a forced cycle without a position has its GET outstanding
C20_Witness ==
    /\ cfg.forceUpdate
    /\ bus.pos = None
    /\ \E i \in DOMAIN cycles :
           /\ cycles[i].pos = None
           /\ cycles[i].meta = "skipped"
           /\ cycles[i].requests = {"GET"}

-----------------------------------------------------------------------------
(* Properties of the snapshot, the payload and the error paths *)

\* The cycles whose PUT, resp. GET, awaits its answer
PutCount == Cardinality({j \in DOMAIN cycles : "PUT" \in cycles[j].requests})
GetCount == Cardinality({j \in DOMAIN cycles : "GET" \in cycles[j].requests})

\* The sensor node each key of the snapshot is read from
PathOf == [wind |-> "wind", gust |-> "gust", winddir |-> "dir", temp |-> "temp",
           pressure |-> "pressure", rh |-> "humidity"]

\* C21: with an empty snapshot no GET is issued and the peak stays; a cycle
\* that issues no PUT either ends at once with 'Waiting for sensor data' and
\* the distance; the PUT is issued as with any snapshot, and once it is
\* answered the cycle ends with that status and the distance of the moment.
C21_EmptySnapshot ==
    [][/\ \A i \in DOMAIN timers, sensors \in SensorReadings :
              (TimerFire(i, sensors)
                 /\ ~NonEmpty(GapCloser(getStationData(sensors), peakGust))) =>
                  /\ peakGust' = peakGust
                  /\ GetCount' = GetCount
                  /\ PutIssued <=>
                         /\ bus.pos # None
                         /\ shouldUpdateGPS(cfg, timers[i].kind = "warmup" /\ cfg.forceUpdate)
                  /\ ~PutIssued =>
                         /\ cycles' = cycles
                         /\ status' = StatusMsg("Waiting for sensor data", 0,
                                                 Delta(currentDistance), 0)
       /\ \A i \in DOMAIN cycles :
              ((MetadataSuccess(i) \/ \E code \in MetaCodes : MetadataFailure(i, code))
                 /\ ~NonEmpty(cycles[i].weather)) =>
                  /\ peakGust' = peakGust
                  /\ GetCount' = GetCount
                  /\ Len(cycles') = Len(cycles) - 1
                  /\ status' = StatusMsg("Waiting for sensor data", 0,
                                          Delta(currentDistance'), 0)]_vars

\* C21 witness: a cycle has ended for want of sensor data, a position and a
\* baseline being there
C21_Witness ==
    /\ status.kind = "Waiting for sensor data"
    /\ status.delta = Delta(currentDistance)
    /\ peakGust = 0
    /\ cycles = <<>>
    /\ bus.pos # None
    /\ lastSentPos # UnsetPos

\* C22: a failed PUT or GET is not sent again: the failure takes the request
\* off, a failed PUT is followed only by the one GET of its cycle, a failed
\* GET ends the cycle, timeouts and nextRunTime stay as they are, and a new
\* PUT or a new cycle starts only when a timeout fires.
C22_NoRetry ==
    [][/\ \A i \in DOMAIN cycles, code \in MetaCodes :
              MetadataFailure(i, code) =>
                  /\ PutCount' = PutCount - 1
                  /\ GetCount' <= GetCount + 1
                  /\ Len(cycles') <= Len(cycles)
                  /\ UNCHANGED <<timers, timerLive, nextRunTime>>
       /\ \A i \in DOMAIN cycles :
              \/ \E code \in ObsCodes : ObservationFailure(i, code, 0)
              \/ \E r \in RetryAfters : ObservationFailure(i, 429, r)
              => /\ GetCount' = GetCount - 1
                 /\ PutCount' = PutCount
                 /\ Len(cycles') = Len(cycles) - 1
                 /\ UNCHANGED <<timers, timerLive, nextRunTime>>
       /\ (PutCount' > PutCount \/ Len(cycles') > Len(cycles)) =>
              \E i \in DOMAIN timers, sensors \in SensorReadings : TimerFire(i, sensors)]_vars

\* C22 witness: an observation has failed, no request is outstanding and the
\* next timeout is the one armed when the cycle started
C22_Witness ==
    /\ status.kind = "Observation failed"
    /\ cycles = <<>>
    /\ timers = <<[at |-> nextRunTime, kind |-> "next"]>>
    /\ nextRunTime > now

\* C23 (as claimed): every winddir of a snapshot lies in [0, 360).
C23_WindDirRange ==
    \A i \in DOMAIN cycles :
        cycles[i].weather.winddir # None =>
            /\ cycles[i].weather.winddir # NaN
            /\ Val(cycles[i].weather.winddir) >= 0
            /\ Val(cycles[i].weather.winddir) < 360

\* C24: the snapshot of a cycle has a key exactly when the node of its
\* sensor holds a value (the gust key also when a peak was tracked); a
\* missing node or a null value gives no key, and with no key at all and no
\* PUT no request is made.
C24_KeysOnlyWithValue ==
    [][\A i \in DOMAIN timers, sensors \in DataReadings :
           TimerFire(i, sensors) =>
               IF Len(cycles') > Len(cycles)
               THEN \A k \in SensorKeys :
                        cycles'[Len(cycles')].weather[k] # None <=>
                            \/ Len(sensors[PathOf[k]]) = 1
                            \/ k = "gust" /\ peakGust > 0
               ELSE \A k \in SensorKeys : Len(sensors[PathOf[k]]) # 1]_vars

\* C25 (as claimed): the elevation of every metadata payload is a number and
\* its sensor heights are whole metres.
C25_IntegerHeights ==
    \A i \in DOMAIN cycles :
        cycles[i].payload # None =>
            /\ Val(cycles[i].payload).elev_m # NaN
            /\ Val(cycles[i].payload).agl_wind % 10 = 0
            /\ Val(cycles[i].payload).agl_temp % 10 = 0

\* C26 (as claimed): a start that follows a stop at once begins with no
\* baseline, distance 0 and the warm-up timeout.
C26_ManualReset ==
    [][(Start /\ JustStopped /\ Parses(file)) =>
           /\ lastSentPos' = UnsetPos
           /\ currentDistance' = Zero
           /\ timers' = <<[at |-> now + WarmupMs, kind |-> "warmup"]>>]_vars

-----------------------------------------------------------------------------
(* Properties of the distance *)

\* C27: while the baseline is (0,0) a sample becomes the baseline and no
\* distance is computed; with a baseline set a sample leaves it alone; the
\* distance is 0 whenever the baseline is (0,0).
C27_SentinelNeverBaseline ==
    [][/\ \A p \in GuardPositions :
              (PositionDelta(p) /\ subscriptions >= 1) =>
                  IF lastSentPos = UnsetPos
                  THEN lastSentPos' = p /\ currentDistance' = currentDistance
                  ELSE lastSentPos' = lastSentPos
       /\ lastSentPos' = UnsetPos => currentDistance' = Zero]_vars

\* C27 witness: the sample (0,0) has been delivered and the baseline is
\* still unset, with distance 0
C27_Witness ==
    /\ subscriptions >= 1
    /\ bus.pos = Some(UnsetPos)
    /\ lastSentPos = UnsetPos
    /\ currentDistance = Zero

\* C28 (as claimed): a sample (0,0) delivered while a baseline is set leaves
\* currentDistance as it is.
C28_SentinelIgnored ==
    [][(PositionDelta(UnsetPos) /\ subscriptions >= 1 /\ lastSentPos # UnsetPos) =>
           currentDistance' = currentDistance]_vars

\* C29 (as claimed): with a baseline set and a sample seen, currentDistance
\* is the distance from the baseline to the latest sample.
C29_RadiusInvariant ==
    (subscriptions >= 1 /\ lastSentPos.lat # 0 /\ bus.pos # None) =>
        currentDistance = Distance(lastSentPos, kx, Val(bus.pos))

\* C29 (amended): a sample delivered while a baseline is set makes
\* currentDistance the distance from the baseline to that sample, whatever it
\* was, and leaves the baseline; apart from samples only a commit (to 0) and a
\* start that loads the file (to the saved value) change it.
C29_RadiusAtSample ==
    [][/\ \A p \in Positions :
              (PositionDelta(p) /\ subscriptions >= 1 /\ lastSentPos.lat # 0) =>
                  /\ currentDistance' = Distance(lastSentPos, kx, p)
                  /\ UNCHANGED <<lastSentPos, kx>>
       /\ currentDistance' # currentDistance =>
              \/ \E p \in Positions : PositionDelta(p)
              \/ currentDistance' = Zero /\ \E i \in DOMAIN cycles : MetadataSuccess(i)
              \/ /\ Start
                 /\ Parses(file)
                 /\ currentDistance' = StringToNumber(Val(file).currentDistance)]_vars

\* C29 witness: a commit has been made and a later sample has set the
\* distance to its radius from the new baseline
C29_Witness ==
    /\ subscriptions >= 1
    /\ lastSentPos = PosB
    /\ bus.pos = Some(PosA)
    /\ FLess(Zero, currentDistance)
    /\ currentDistance = Distance(lastSentPos, kx, PosA)
    /\ status.kind = "Reported"

\* C30 (as claimed): only a commit lowers currentDistance, to 0.
C30_MonotoneDistance ==
    [][FLess(currentDistance', currentDistance) =>
           currentDistance' = Zero /\ \E i \in DOMAIN cycles : MetadataSuccess(i)]_vars

\* C30 (amended): currentDistance is not monotone between commits.  A sample
\* nearer to the baseline than the distance held lowers it; and it is lowered
\* only by such a sample (to the radius of that sample), by a commit (to 0) or
\* by a start that loads a smaller saved value.
C30_DistanceLowering ==
    [][/\ \A p \in Positions :
              (/\ PositionDelta(p)
               /\ lastSentPos.lat # 0
               /\ FLess(Distance(lastSentPos, kx, p), currentDistance))
                  => FLess(currentDistance', currentDistance)
       /\ FLess(currentDistance', currentDistance) =>
              \/ \E p \in Positions :
                     /\ PositionDelta(p)
                     /\ lastSentPos' = lastSentPos
                     /\ currentDistance' = Distance(lastSentPos, kx, p)
              \/ currentDistance' = Zero /\ \E i \in DOMAIN cycles : MetadataSuccess(i)
              \/ /\ Start
                 /\ Parses(file)
                 /\ FLess(StringToNumber(Val(file).currentDistance), currentDistance)]_vars

\* C30 witness: the vessel is away from the baseline, no request is
\* outstanding, and a sample can lower the distance
C30_Witness ==
    /\ FLess(Zero, currentDistance)
    /\ cycles = <<>>
    /\ running
    /\ ENABLED (/\ \E p \in Positions : PositionDelta(p)
                /\ FLess(currentDistance', currentDistance))

-----------------------------------------------------------------------------
(* Properties of the peak sampler, the scheduler and the status line *)

\* C31: a wind sample v leaves the peak at max(previous peak, v), a null
\* sample leaves it unchanged, and the peak decreases only by the reset to 0
\* of a successful observation.
C31_PeakNeverDecreases ==
    [][/\ \A v \in WindVals :
              WindDelta(v) => peakGust' = (IF v > peakGust THEN v ELSE peakGust)
       /\ WindNull => peakGust' = peakGust
       /\ peakGust' < peakGust =>
              peakGust' = 0 /\ \E i \in DOMAIN cycles : ObservationSuccess(i)]_vars

\* C31 witness: the peak is the higher sample and a lower sample and a null
\* sample can arrive, both leaving it there
C31_Witness ==
    /\ peakGust = 1230
    /\ ENABLED (WindDelta(520) /\ peakGust' = 1230)
    /\ ENABLED (WindNull /\ peakGust' = 1230)

\* C32: nothing keeps a cycle from starting while another is in flight.  A
\* timeout that is due while a cycle awaits its answer can fire, and its
\* cycle issues its own request next to the one outstanding; and a step that
\* fires a timeout leaves the cycles in flight as they are.
C32_NoSingleFlight ==
    [][/\ \A i \in DOMAIN timers :
              (timers[i].at <= now /\ Len(cycles) < MaxCycles) =>
                  ENABLED (/\ TimerFire(i, [NoSensors EXCEPT !.gust = Some(800)])
                           /\ Len(cycles') = Len(cycles) + 1)
       /\ \A i \in DOMAIN timers, sensors \in IntervalReadings :
              TimerFire(i, sensors) =>
                  /\ Len(cycles') >= Len(cycles)
                  /\ SubSeq(cycles', 1, Len(cycles)) = cycles]_vars

\* C32 witness: two cycles are in flight, one awaiting the answer to its PUT
\* and one the answer to its GET, whose snapshot carries the peak; the commit
\* of the first and the peak reset of the second can both be applied now
C32_Witness ==
    /\ Len(cycles) = 2
    /\ peakGust > 0
    /\ \E i, j \in DOMAIN cycles :
           /\ i # j
           /\ cycles[i].requests = {"PUT"}
           /\ cycles[j].requests = {"GET"}
           /\ cycles[j].weather.gust = Some(ToFixed1(peakGust))
           /\ ENABLED (MetadataSuccess(i) /\ currentDistance' = Zero)
           /\ ENABLED (ObservationSuccess(j) /\ peakGust' = 0)

\* C33 (as claimed): whatever the configured interval, the timeout armed by
\* a reschedule is at least 5 minutes away.
C33_MinimumInterval ==
    [][\A i \in DOMAIN timers, sensors \in IntervalReadings :
           TimerFire(i, sensors) =>
               timers'[Len(timers')].at - now >= DefaultInterval * MsPerMinute]_vars

\* C34 (as claimed): the status of a cycle that ended in 'Waiting for sensor
\* data' or in an error stays on display until a step of a reporting cycle
\* (a timer fire or an answer to a request) replaces it.
C34_StatusKeepsOutcome ==
    [][(/\ status.kind \in {"Waiting for sensor data", "Metadata update failed",
                            "Observation failed"}
        /\ status' # status)
           => \/ \E i \in DOMAIN timers, sensors \in SensorReadings : TimerFire(i, sensors)
              \/ cycles' # cycles]_vars

\* C35: an outstanding observation request carries the station id and the
\* station password and no API key; an outstanding metadata request carries
\* the API key and no station password; neither the station password nor the
\* API key is a piece of the status on display or of a message that the last
\* step gave to app.debug or app.error.
C35_CredentialSeparation ==
    /\ \A i \in DOMAIN cycles :
           LET c == cycles[i]
           IN  /\ "GET" \in c.requests =>
                      /\ c.auth.id = cfg.stationId
                      /\ c.auth.PASSWORD = Some(cfg.stationPassword)
                      /\ c.auth.key = None
               /\ "PUT" \in c.requests =>
                      /\ c.auth.id = cfg.stationId
                      /\ c.auth.key = Some(cfg.apiKey)
                      /\ c.auth.PASSWORD = None
    /\ \A secret \in {cfg.stationPassword, cfg.apiKey} :
           /\ status.kind # secret
           /\ status.report # secret
           /\ \A k \in DOMAIN logged :
                  \A j \in DOMAIN logged[k].text : logged[k].text[j].str # secret

\* C35 witness: the PUT of a cycle was rejected with an HTTP status and the
\* step has logged the error and the snapshot of the GET that it sent with
\* the station password, while the status shows the metadata error
C35_Witness ==
    /\ status.kind = "Metadata update failed"
    /\ status.code # 0
    /\ Len(logged) = 2
    /\ logged[1].level = "error"
    /\ logged[1].text[2] = Num(status.code)
    /\ logged[2].level = "debug"
    /\ logged[2].text[1] = Text("Windy Submission (GET): ")
    /\ Len(logged[2].text) > 1
    /\ \E i \in DOMAIN cycles :
           /\ cycles[i].meta = "failed"
           /\ cycles[i].requests = {"GET"}
           /\ cycles[i].auth.PASSWORD = Some(cfg.stationPassword)

\* C36: whenever the handle `timer` holds a pending timeout, nextRunTime is
\* the time at which that timeout fires, after the warm-up branch, the resume
\* branch and every reschedule; so the nextRunTime that stop writes is the
\* deadline of the timeout it cancels.
C36_RunTimeIsDeadline ==
    [][/\ timerLive' =>
              /\ timers' # <<>>
              /\ timers'[Len(timers')].at = nextRunTime'
       /\ (Stop("written") /\ timerLive) =>
              /\ Val(file').nextRunTime = timers[Len(timers)].at
              /\ Len(timers') = Len(timers) - 1]_vars

\* C36 witness: a restarted plugin waits in the resume branch for the run
\* time its stop has written, which lies beyond the warm-up delay
C36_Witness ==
    /\ running
    /\ timerLive
    /\ Parses(file)
    /\ timers[Len(timers)].kind = "resume"
    /\ timers[Len(timers)].at = Val(file).nextRunTime
    /\ nextRunTime > now + WarmupMs

\* The step sends a request: a new cycle with its first request, or the GET
\* of a cycle whose PUT is answered
RequestSent ==
    \/ Len(cycles') = Len(cycles) + 1
    \/ /\ Len(cycles') = Len(cycles)
       /\ \E i \in DOMAIN cycles :
              cycles[i].requests = {"PUT"} /\ cycles'[i].requests = {"GET"}

\* C37 (as claimed): between stop and the next start no request is sent; a
\* cycle in flight at the time of stop receives its answer and sends nothing.
C37_QuietAfterStop ==
    [][(~running /\ ~running') => ~RequestSent]_vars

\* The last instant the clock of the model reaches
Horizon == StartTime + MaxTicks * TickMs

\* C38: in a started plugin every timer fire arms the next timeout, one
\* interval ahead, whatever the snapshot (an exception of getStationData
\* included) and whatever the answers to its requests; and when time passes
\* and due timeouts fire, a pending timeout becomes due, fires and is followed
\* by the next one, again and again, up to the horizon of the clock.
C38_AlwaysRescheduled ==
    /\ [][\A i \in DOMAIN timers, sensors \in IntervalReadings :
              TimerFire(i, sensors) =>
                  /\ Len(timers') = Len(timers)
                  /\ timers'[Len(timers')] = [at |-> now + IntervalMs(cfg), kind |-> "next"]
                  /\ timerLive']_vars
    /\ [](running => timers # <<>>)
    /\ (running /\ nextRunTime < Horizon) ~> (running /\ nextRunTime >= Horizon)

\* C39: a cycle that starts with peakGust > 0 has a gust key in its snapshot
\* and goes through the observation phase, whatever the sensors hold: it is
\* started with the GET, or with the PUT whose answer is followed by the GET.
\* A cycle ends in 'Waiting for sensor data' only if it started with no
\* sensor value and a peak of 0.
C39_PeakFillsSnapshot ==
    [][/\ \A i \in DOMAIN timers, sensors \in SensorReadings :
              TimerFire(i, sensors) =>
                  /\ peakGust > 0 =>
                         /\ Len(cycles') = Len(cycles) + 1
                         /\ cycles'[Len(cycles')].weather.gust # None
                         /\ status' = status
                  /\ cycles' = cycles =>
                         /\ peakGust = 0
                         /\ \A k \in {"wind", "gust"} : sensors[k] = None
                         /\ status'.kind = "Waiting for sensor data"
       /\ \A i \in DOMAIN cycles :
              (/\ MetadataSuccess(i) \/ \E code \in MetaCodes : MetadataFailure(i, code)
               /\ cycles[i].weather.gust # None) =>
                  /\ Len(cycles') = Len(cycles)
                  /\ cycles'[i].requests = {"GET"}
       /\ (status'.kind = "Waiting for sensor data" /\ Len(cycles') < Len(cycles)) =>
              \E i \in DOMAIN cycles :
                  /\ cycles' = RemoveAt(cycles, i)
                  /\ \A k \in SensorKeys : cycles[i].weather[k] = None]_vars

\* C39 witness: no sensor has a value, the peak is positive, and the GET of
\* a cycle whose only key is the gust taken from the peak is outstanding
C39_Witness ==
    /\ peakGust > 0
    /\ \E i \in DOMAIN cycles :
           /\ cycles[i].requests = {"GET"}
           /\ cycles[i].weather.gust = Some(ToFixed1(peakGust))
           /\ \A k \in SensorKeys \ {"gust"} : cycles[i].weather[k] = None

\* C40: kx changes only in a step that changes the baseline (seeding,
\* metadata commit, state load); a position sample measured against a set
\* baseline leaves it alone; and whenever a baseline is set, so whenever a
\* distance is computed, kx is the cosine of the baseline latitude.
C40_KxFollowsBaseline ==
    [][/\ kx' # kx => lastSentPos' # lastSentPos
       /\ \A p \in Positions :
              (PositionDelta(p) /\ lastSentPos.lat # 0) =>
                  kx' = kx /\ lastSentPos' = lastSentPos
       /\ lastSentPos'.lat # 0 => kx' = Cos(lastSentPos'.lat)]_vars

\* C40 witness: the baseline was moved by a commit to a latitude with
\* another cosine than the first baseline, and the vessel has moved since
C40_Witness ==
    /\ lastSentPos = PosB
    /\ kx = Cos(PosB.lat)
    /\ kx # Cos(PosA.lat)
    /\ FLess(Zero, currentDistance)
    /\ Parses(file)
    /\ MicroDegrees(Val(file).lastSentPos.lat) = PosA.lat
    /\ MicroDegrees(Val(file).lastSentPos.lon) = PosA.lon

=============================================================================
